---- MODULE Spec2Model ----
(***************************************************************************)
(* State-machine model of the URL shortener: the Link Service with its     *)
(* collision-retry loop, the Link/Click store, the HTTP handlers, the      *)
(* click queue with its worker pool, the URL monitor and the run-server    *)
(* shutdown sequence.                                                      *)
(***************************************************************************)
EXTENDS Integers, Sequences, FiniteSets, TLC

VARIABLES
    links,      \* rows of the links table, in insertion (rowid) order
    clicks,     \* rows of the clicks table, in insertion order
    queue,      \* buffered content of ClickEventsChannel, head first
    closed,     \* whether ClickEventsChannel has been closed
    wpc,        \* per worker: "recv" | "persist" | "exited"
    wevent,     \* per worker: the event taken by `for event := range ...`
    call,       \* per HTTP client: the CreateLink call it has in progress
    resp,       \* the HTTP response written most recently
    mainpc,     \* RunServerCmd.Run: "serving" | "grace" | "exited"
    nCalls,     \* number of CreateLink calls started so far
    nextSeq,    \* number of ClickEvents built so far (history)
    dropped,    \* history: events discarded by the select default branch
    failed,     \* history: events whose CreateClick returned an error
    dequeues,   \* history: per event, how many times it left the channel
    attempts,   \* history: per event, how many CreateClick calls it caused
    batch,      \* the POST /links request with several URLs in progress
    mpc,        \* UrlMonitor: "wait" (on the ticker) | "loop" (in checkUrls)
    mlinks,     \* checkUrls: the links of the range loop not yet visited
    knownStates,    \* UrlMonitor.knownStates: link ID -> accessible
    notifications,  \* the [NOTIFICATION] lines logged so far
    checks,     \* history: the outcome of GetAllLinks in each checkUrls call
    nProbes,    \* history: per link ID, how many probes it has had
    lastProbe,  \* history: what the latest probe met
    mu,         \* UrlMonitor.mu: "free" | "held"
    mbody,      \* checkUrls: position in the loop body and its locals
    boot        \* RunServerCmd.Run before serving: position, the channels
                \* made, api.ClickEventsChannel, each worker's channel

monVars == <<mpc, mlinks, knownStates, notifications, checks, nProbes,
             lastProbe, mu, mbody>>

vars == <<links, clicks, queue, closed, wpc, wevent, call, resp, mainpc,
          nCalls, nextSeq, dropped, failed, dequeues, attempts, batch,
          monVars, boot>>

----------------------------------------------------------------------------
(* Bounds of the model *)

NumClients == 2     \* concurrent POST /links requests
MaxCalls == 2       \* CreateLink calls over a run
NumTapes == 2       \* distinct outcomes of the random source
BufferSize == 2     \* cfg.Analytics.BufferSize
WorkerCount == 2    \* cfg.Analytics.WorkerCount
MaxRedirects == 3   \* redirects of existing links over a run
MaxChecks == 3      \* checkUrls calls of the monitor over a run
MaxURLs == 3        \* URLs in one POST /links request

Clients == 1..NumClients
Workers == 1..WorkerCount

----------------------------------------------------------------------------
(* Errors: an error is the chain of its wrapped errors, outermost first;   *)
(* nil is the empty chain.                                                 *)

NoErr == <<>>

ErrShortCodeNotFound == <<"short code not found">>
ErrShortCodeGenerationFailed == <<"failed to generate unique short code">>
gormErrRecordNotFound == <<"record not found">>
ErrDatabase == <<"database is locked">>
ErrUniqueConstraint == <<"UNIQUE constraint failed: links.short_code">>
ErrRandRead == <<"crypto/rand: read failed">>

\* fmt.Errorf("msg: %w", err)
Wrap(msg, err) == <<msg>> \o err

\* errors.Is(err, target)
ErrorsIs(err, target) ==
    \E i \in 1..Len(err) : SubSeq(err, i, Len(err)) = target

----------------------------------------------------------------------------
(* Code generator *)

charset ==
    << "a","b","c","d","e","f","g","h","i","j","k","l","m",
       "n","o","p","q","r","s","t","u","v","w","x","y","z",
       "A","B","C","D","E","F","G","H","I","J","K","L","M",
       "N","O","P","Q","R","S","T","U","V","W","X","Y","Z",
       "0","1","2","3","4","5","6","7","8","9" >>

\* The value rand.Int(rand.Reader, n) returns for position i on tape t.
RandInt(t, i, n) == (17 * t + 5 * i) % n

\* A generator whose loop stops one character early.
GenerateShortCodeShort(length, t) ==
    [i \in 1..(length - 1) |-> charset[RandInt(t, i - 1, Len(charset)) + 1]]

\* GenerateShortCode: one character of charset per position, each drawn
\* with rand.Int below len(charset).
GenerateShortCode(length, t) ==
    [i \in 1..length |-> charset[RandInt(t, i - 1, Len(charset)) + 1]]

codeLength == 6
Tapes == 1..NumTapes
GenCodes == {GenerateShortCode(codeLength, t) : t \in Tapes}

\* A code no Link carries: the lookup miss of GET /doesnotexist.
NoSuchCode == <<"d","o","e","s","n","o","t","e","x","i","s","t">>
LookupCodes == GenCodes \cup {NoSuchCode}

LongURLs == {"https://a.example", "https://b.example"}
UserAgents == {"", "curl/8"}
ClientIP == "10.0.0.1"

----------------------------------------------------------------------------
(* Link store (GormLinkRepository over the links table) *)

NoLink == [ID |-> 0, ShortCode |-> <<>>, LongURL |-> "", CreatedAt |-> 0]

LinkRows == {links[i] : i \in 1..Len(links)}

HasCode(rows, code) == \E i \in 1..Len(rows) : rows[i].ShortCode = code

RowByCode(rows, code) ==
    rows[CHOOSE i \in 1..Len(rows) : rows[i].ShortCode = code]

\* db.Where("short_code = ?", shortCode).First(&link)
RepoGetLinkByShortCode(rows, code, dbfault) ==
    IF dbfault THEN [link |-> NoLink, err |-> ErrDatabase]
    ELSE IF HasCode(rows, code)
         THEN [link |-> RowByCode(rows, code), err |-> NoErr]
         ELSE [link |-> NoLink, err |-> gormErrRecordNotFound]

\* A links table without the unique index.
UniqueViolationOff(rows, link) == FALSE

\* The uniqueIndex on links.short_code.
UniqueViolation(rows, link) == HasCode(rows, link.ShortCode)

\* An insert that empties the table first.
RepoCreateLinkReplacing(rows, link, dbfault) ==
    IF dbfault
    THEN [rows |-> rows, link |-> link,
          err |-> Wrap("failed to create link", ErrDatabase)]
    ELSE LET row == [link EXCEPT !.ID = Len(rows) + 1]
         IN  [rows |-> <<row>>, link |-> row, err |-> NoErr]

\* An insert whose row stays in the table when the store reports a failure.
RepoCreateLinkKeepsFailedRow(rows, link, dbfault) ==
    IF UniqueViolation(rows, link)
    THEN [rows |-> rows, link |-> link,
          err |-> Wrap("failed to create link", ErrUniqueConstraint)]
    ELSE LET row == [link EXCEPT !.ID = Len(rows) + 1]
         IN  IF dbfault
             THEN [rows |-> Append(rows, row), link |-> link,
                   err |-> Wrap("failed to create link", ErrDatabase)]
             ELSE [rows |-> Append(rows, row), link |-> row, err |-> NoErr]

\* db.Create(link): the row gets the next primary key.
RepoCreateLink(rows, link, dbfault) ==
    IF dbfault
    THEN [rows |-> rows, link |-> link,
          err |-> Wrap("failed to create link", ErrDatabase)]
    ELSE IF UniqueViolation(rows, link)
    THEN [rows |-> rows, link |-> link,
          err |-> Wrap("failed to create link", ErrUniqueConstraint)]
    ELSE LET row == [link EXCEPT !.ID = Len(rows) + 1]
         IN  [rows |-> Append(rows, row), link |-> row, err |-> NoErr]

----------------------------------------------------------------------------
(* Link Service *)

maxRetries == 5

ErrRetriesExhausted ==
    <<"failed to generate unique short code after maximum retries">>

\* The locals of one CreateLink call and, once it has returned, the status
\* the handler answered with. gens, hits, inserts, check and store are
\* history: codes generated, collisions seen, rows inserted, the answer of
\* the store to the latest existence check ("none" | "free" | "taken" |
\* "failed") and to the insert ("none" | "accepted" | "rejected").
IdleCall ==
    [pc |-> "idle", longURL |-> "", i |-> 0, code |-> <<>>,
     shortCode |-> <<>>, link |-> NoLink, err |-> NoErr,
     gens |-> 0, hits |-> 0, inserts |-> 0, check |-> "none",
     store |-> "none", status |-> 0]

NewCall(longURL) == [IdleCall EXCEPT !.pc = "loop", !.longURL = longURL]

\* return nil, err
ReturnErr(c, err) == [c EXCEPT !.pc = "done", !.link = NoLink, !.err = err]

\* The retry loop written with i <= maxRetries.
AfterCollisionOffByOne(c) ==
    IF c.i + 1 <= maxRetries
    THEN [c EXCEPT !.i = c.i + 1, !.hits = c.hits + 1]
    ELSE ReturnErr([c EXCEPT !.i = c.i + 1, !.hits = c.hits + 1],
                   ErrRetriesExhausted)

\* What follows a collision: the next iteration while i+1 < maxRetries,
\* else the loop ends with shortCode == "" and the call fails.
AfterCollision(c) ==
    IF c.i + 1 < maxRetries
    THEN [c EXCEPT !.i = c.i + 1, !.hits = c.hits + 1]
    ELSE ReturnErr([c EXCEPT !.i = c.i + 1, !.hits = c.hits + 1],
                   ErrRetriesExhausted)

\* The answer of the store to an existence check, from what it returned.
CheckAnswer(err) ==
    IF err = NoErr THEN "taken"
    ELSE IF ErrorsIs(err, gormErrRecordNotFound) THEN "free"
    ELSE "failed"

\* An iteration that takes every error of the existence check for a
\* collision and tries again.
CreateLinkIterationRetryOnError(c, rows, t, dbfault) ==
    LET code == GenerateShortCode(codeLength, t)
        r    == RepoGetLinkByShortCode(rows, code, dbfault)
        g    == [c EXCEPT !.code = code, !.gens = c.gens + 1,
                          !.check = CheckAnswer(r.err)]
    IN  IF r.err # NoErr
        THEN IF ErrorsIs(r.err, gormErrRecordNotFound)
             THEN [g EXCEPT !.shortCode = code, !.pc = "insert"]
             ELSE AfterCollision(g)
        ELSE AfterCollision(g)

\* One iteration of the retry loop with the code drawn from tape t.
CreateLinkIteration(c, rows, t, dbfault) ==
    LET code == GenerateShortCode(codeLength, t)
        r    == RepoGetLinkByShortCode(rows, code, dbfault)
        g    == [c EXCEPT !.code = code, !.gens = c.gens + 1,
                          !.check = CheckAnswer(r.err)]
    IN  IF r.err # NoErr
        THEN IF ErrorsIs(r.err, gormErrRecordNotFound)
             THEN [g EXCEPT !.shortCode = code, !.pc = "insert"]
             ELSE ReturnErr(g,
                    Wrap("database error checking short code uniqueness", r.err))
        ELSE AfterCollision(g)

\* GenerateShortCode failed: the random source returned an error.
CreateLinkRandFailure(c) ==
    ReturnErr([c EXCEPT !.gens = c.gens + 1],
              Wrap("failed to generate short code",
                   Wrap("failed to generate random number", ErrRandRead)))

\* The Link a call hands to the repository.
NewLink(c, now) ==
    [ID |-> 0, ShortCode |-> c.shortCode, LongURL |-> c.longURL,
     CreatedAt |-> now]

\* The tail of CreateLink: build the Link and insert it.
CreateLinkInsert(c, rows, now, dbfault) ==
    LET r == RepoCreateLink(rows, NewLink(c, now), dbfault)
    IN  IF r.err # NoErr
        THEN [rows |-> r.rows,
              call |-> [ReturnErr(c, Wrap("failed to create link", r.err))
                          EXCEPT !.store = "rejected",
                                 !.inserts = c.inserts + (Len(r.rows) - Len(rows))]]
        ELSE [rows |-> r.rows,
              call |-> [c EXCEPT !.pc = "done", !.link = r.link, !.err = NoErr,
                                 !.store = "accepted",
                                 !.inserts = c.inserts + (Len(r.rows) - Len(rows))]]

\* A lookup whose query has lost its WHERE clause: the first row, whatever
\* the code.
GetLinkByShortCodeAnyRow(rows, code, dbfault) ==
    IF dbfault THEN [link |-> NoLink, err |-> ErrDatabase]
    ELSE IF rows # <<>> THEN [link |-> rows[1], err |-> NoErr]
    ELSE [link |-> NoLink, err |-> gormErrRecordNotFound]

\* LinkService.GetLinkByShortCode
GetLinkByShortCode(rows, code, dbfault) ==
    RepoGetLinkByShortCode(rows, code, dbfault)

----------------------------------------------------------------------------
(* HTTP boundary *)

NoResp == [handler |-> "none", status |-> 0]

\* The status handleSingleURL answers with for the outcome of CreateLink.
SingleURLStatus(err) ==
    IF err # NoErr
    THEN IF ErrorsIs(err, ErrShortCodeGenerationFailed) THEN 503 ELSE 500
    ELSE 201

\* handleSingleURL once CreateLink has returned: c.JSON(status, ...)
handleSingleURL(c) ==
    IF c.pc = "done" THEN [c EXCEPT !.status = SingleURLStatus(c.err)] ELSE c

\* The status RedirectHandler and GetLinkStatsHandler answer a failed
\* lookup with.
LookupErrorStatus(err) ==
    IF ErrorsIs(err, ErrShortCodeNotFound) THEN 404 ELSE 500

\* A count whose query has lost its WHERE clause: every row of the table.
CountClicksAnyLink(clickRows, linkID, dbfault) ==
    IF dbfault
    THEN [count |-> 0, err |-> Wrap("failed to count clicks for link ID", ErrDatabase)]
    ELSE [count |-> Len(clickRows), err |-> NoErr]

\* LinkService.GetLinkStats: the lookup, then the count of clicks rows
\* whose link_id is the Link's primary key.
CountClicksByLinkID(clickRows, linkID, dbfault) ==
    IF dbfault
    THEN [count |-> 0, err |-> Wrap("failed to count clicks for link ID", ErrDatabase)]
    ELSE [count |-> Cardinality({i \in 1..Len(clickRows) : clickRows[i].LinkID = linkID}),
          err |-> NoErr]

GetLinkStats(rows, clickRows, code, dbfault, countfault) ==
    LET r == RepoGetLinkByShortCode(rows, code, dbfault)
        n == CountClicksByLinkID(clickRows, r.link.ID, countfault)
    IN  IF r.err # NoErr THEN [link |-> NoLink, total |-> 0, err |-> r.err]
        ELSE IF n.err # NoErr THEN [link |-> NoLink, total |-> 0, err |-> n.err]
        ELSE [link |-> r.link, total |-> n.count, err |-> NoErr]

----------------------------------------------------------------------------
(* Click events, the channel and the Click store *)

\* seq numbers the events in the order the redirect handler built them;
\* it is history, not a field of the Go struct.
ClickEvent(link, now, ua, ip, seq) ==
    [LinkID |-> link.ID, Timestamp |-> now, UserAgent |-> ua,
     IPAddress |-> ip, seq |-> seq]

\* A send that always succeeds, whatever the buffer holds.
TrySendUnbounded(q, cap, ev) == [queue |-> Append(q, ev), sent |-> TRUE]

\* A send that gives up one slot early.
TrySendOffByOne(q, cap, ev) ==
    IF Len(q) + 1 < cap THEN [queue |-> Append(q, ev), sent |-> TRUE]
    ELSE [queue |-> q, sent |-> FALSE]

\* A send that succeeds only on an empty buffer.
TrySendWhenEmpty(q, cap, ev) ==
    IF Len(q) = 0 THEN [queue |-> Append(q, ev), sent |-> TRUE]
    ELSE [queue |-> q, sent |-> FALSE]

\* select { case ch <- ev: ... default: ... } on a channel of capacity cap
TrySend(q, cap, ev) ==
    IF Len(q) < cap THEN [queue |-> Append(q, ev), sent |-> TRUE]
    ELSE [queue |-> q, sent |-> FALSE]

\* A Click that keeps the Link and the time of the event and leaves the
\* client's fields empty.
ClickFromEventAnonymous(event) ==
    [ID |-> 0, LinkID |-> event.LinkID, Timestamp |-> event.Timestamp,
     UserAgent |-> "", IPAddress |-> "", seq |-> event.seq]

\* The Click a worker builds from the event it received.
ClickFromEvent(event) ==
    [ID |-> 0, LinkID |-> event.LinkID, Timestamp |-> event.Timestamp,
     UserAgent |-> event.UserAgent, IPAddress |-> event.IPAddress,
     seq |-> event.seq]

\* clickRepo.CreateClick: db.Create(click)
RepoCreateClick(clickRows, click, dbfault) ==
    IF dbfault
    THEN [rows |-> clickRows, err |-> Wrap("failed to create click", ErrDatabase)]
    ELSE [rows |-> Append(clickRows, [click EXCEPT !.ID = Len(clickRows) + 1]),
          err |-> NoErr]

NoEvent == [LinkID |-> 0, Timestamp |-> 0, UserAgent |-> "", IPAddress |-> "",
            seq |-> 0]

Seqs == 1..MaxRedirects

\* time.Now(): logical time, one tick per CreateLink call and per redirect
\* served. The program stores timestamps and never compares them.
Now == 1 + nCalls + nextSeq

\* The HTTP server goroutine serves requests for as long as the process
\* lives: Run never calls srv.Shutdown.
Serving == mainpc # "exited"

----------------------------------------------------------------------------
(* URL monitor *)

\* db.Find(&links)
RepoGetAllLinks(rows, dbfault) ==
    IF dbfault
    THEN [links |-> <<>>, err |-> Wrap("failed to retrieve all links", ErrDatabase)]
    ELSE [links |-> rows, err |-> NoErr]

\* What a HEAD request can meet: http.NewRequestWithContext fails, Do fails
\* (in transport, or because the 5 s context expired), or Do returns a
\* response with a status code.
ProbeStatuses == {199, 200, 204, 302, 399, 400, 404, 500}

ProbeOutcomes ==
    {[kind |-> k, status |-> 0] :
        k \in {"request error", "transport error", "timeout"}}
    \cup {[kind |-> "response", status |-> st] : st \in ProbeStatuses}

NoProbe == [kind |-> "none", status |-> 0]

\* A classification that takes 400 for a success.
isUrlAccessibleUpTo400(o) ==
    IF o.kind = "request error" THEN FALSE
    ELSE IF o.kind \in {"transport error", "timeout"} THEN FALSE
    ELSE o.status >= 200 /\ o.status <= 400

\* isUrlAccessible, given what the request met.
isUrlAccessible(o) ==
    IF o.kind = "request error" THEN FALSE
    ELSE IF o.kind \in {"transport error", "timeout"} THEN FALSE
    ELSE o.status >= 200 /\ o.status < 400

formatState(accessible) ==
    IF accessible THEN "ACCESSIBLE" ELSE "INACCESSIBLE"

\* The [NOTIFICATION] line of checkUrls.
Notification(link, previousState, currentState) ==
    [ShortCode |-> link.ShortCode, LongURL |-> link.LongURL,
     from |-> formatState(previousState), to |-> formatState(currentState)]

\* A loop body that has lost its `if !exists { ...; continue }`.
LogChangeNoFirstCheck(log, link, exists, previousState, currentState) ==
    IF currentState # previousState
    THEN Append(log, Notification(link, previousState, currentState))
    ELSE log

\* The end of the loop body of checkUrls: nothing on the first observation
\* of a link, one [NOTIFICATION] line when the state differs otherwise.
LogChange(log, link, exists, previousState, currentState) ==
    IF ~exists THEN log
    ELSE IF currentState # previousState
         THEN Append(log, Notification(link, previousState, currentState))
         ELSE log

LinkIDs == 1..MaxCalls

\* The loop body of checkUrls before its first statement.
BodyTop ==
    [at |-> "top", currentState |-> FALSE, previousState |-> FALSE,
     exists |-> FALSE]

\* NewUrlMonitor, and Start before its first checkUrls.
MonitorInit ==
    /\ mpc = "wait"
    /\ mlinks = <<>>
    /\ knownStates = [id \in {} |-> FALSE]
    /\ notifications = <<>>
    /\ checks = <<>>
    /\ nProbes = [id \in LinkIDs |-> 0]
    /\ lastProbe = NoProbe
    /\ mu = "free"
    /\ mbody = BodyTop

----------------------------------------------------------------------------
(* POST /links with several URLs *)

\* A string the `url` binding rejects.
NotAURL == "not a url"

ValidURL(str) == str \in LongURLs

ListsOf(S, n) == UNION {[1..k -> S] : k \in 0..n}

\* CreateLinkRequest: an optional long_url and a list of long_urls.
Requests ==
    {[long_url |-> u, long_urls |-> us] :
        u \in {"", "https://a.example"},
        us \in ListsOf(LongURLs \cup {NotAURL}, MaxURLs - 1)}

\* c.ShouldBindJSON(&req) with binding:"omitempty,url" and
\* binding:"omitempty,dive,url"
ShouldBindJSON(req) ==
    /\ req.long_url = "" \/ ValidURL(req.long_url)
    /\ \A i \in 1..Len(req.long_urls) : ValidURL(req.long_urls[i])

\* urlsToProcess: long_url, if there is one, then long_urls.
urlsToProcess(req) ==
    (IF req.long_url # "" THEN <<req.long_url>> ELSE <<>>) \o req.long_urls

\* The request CreateShortLinkHandler is serving: where it was routed, the
\* CreateLink call in progress, the locals of handleMultipleURLs and the
\* response. calls is history: the URLs CreateLink was called with.
IdleBatch ==
    [pc |-> "idle", route |-> "none", urls |-> <<>>, call |-> IdleCall,
     calls |-> <<>>, results |-> <<>>, successful |-> 0, failed |-> 0,
     total |-> 0, status |-> 0]

\* The CreateLinkResponse handleMultipleURLs builds for one URL.
CreateLinkResponse(longURL, c) ==
    IF c.err # NoErr
    THEN [long_url |-> longURL, success |-> FALSE, short_code |-> <<>>,
          error |-> IF ErrorsIs(c.err, ErrShortCodeGenerationFailed)
                    THEN "Unable to generate unique short code"
                    ELSE "Failed to create short link"]
    ELSE [long_url |-> longURL, success |-> TRUE,
          short_code |-> c.link.ShortCode, error |-> ""]

\* The status of the response to several URLs.
MultiStatus(successful, failedCount) ==
    IF failedCount = 0 THEN 201
    ELSE IF successful = 0 THEN 400
    ELSE 207

\* The response once the loop has ended.
MultiResponse(b) ==
    [b EXCEPT !.pc = "done", !.call = IdleCall, !.total = Len(b.urls),
              !.status = MultiStatus(b.successful, b.failed)]

\* A loop that ends at the first URL whose CreateLink failed.
handleMultipleURLsStopOnFailure(b) ==
    LET c == b.call
        longURL == b.urls[Len(b.results) + 1]
        r == [b EXCEPT !.results = Append(b.results, CreateLinkResponse(longURL, c)),
                       !.successful = IF c.err = NoErr THEN @ + 1 ELSE @,
                       !.failed = IF c.err # NoErr THEN @ + 1 ELSE @]
    IN  IF Len(r.results) < Len(b.urls) /\ c.err = NoErr
        THEN [r EXCEPT !.call = NewCall(b.urls[Len(r.results) + 1]),
                       !.calls = Append(b.calls, b.urls[Len(r.results) + 1])]
        ELSE MultiResponse(r)

\* handleMultipleURLs from the return of one CreateLink call to the next
\* call, or to the response after the last URL.
handleMultipleURLs(b) ==
    LET c == b.call
        longURL == b.urls[Len(b.results) + 1]
        r == [b EXCEPT !.results = Append(b.results, CreateLinkResponse(longURL, c)),
                       !.successful = IF c.err = NoErr THEN @ + 1 ELSE @,
                       !.failed = IF c.err # NoErr THEN @ + 1 ELSE @]
    IN  IF Len(r.results) < Len(b.urls)
        THEN [r EXCEPT !.call = NewCall(b.urls[Len(r.results) + 1]),
                       !.calls = Append(b.calls, b.urls[Len(r.results) + 1])]
        ELSE MultiResponse(r)

\* What the handler does with a step of the CreateLink call it made.
AfterCreateLink(b) ==
    IF b.call.pc # "done" THEN b
    ELSE IF b.route = "single"
    THEN [b EXCEPT !.pc = "done", !.call = handleSingleURL(b.call),
                   !.status = SingleURLStatus(b.call.err)]
    ELSE handleMultipleURLs(b)

----------------------------------------------------------------------------
(* RunServerCmd.Run up to the start of the HTTP server *)

\* A channel is the number of the make() that created it; 0 is nil.
NilChan == 0

\* Run has not yet made the channel: the package variable
\* api.ClickEventsChannel is nil and no worker runs.
Unbooted ==
    [pc |-> "make", made |-> 0, clickEventsChan |-> NilChan,
     ClickEventsChannel |-> NilChan, workerChan |-> [w \in Workers |-> NilChan]]

\* The server as it serves requests: one channel was made, the package
\* variable and every worker hold it.
Booted ==
    [pc |-> "serving", made |-> 1, clickEventsChan |-> 1,
     ClickEventsChannel |-> 1, workerChan |-> [w \in Workers |-> 1]]

\* A SetupRoutes that makes a channel of its own whatever the variable holds.
SetupRoutesChannelFresh(b) ==
    [b EXCEPT !.made = @ + 1, !.ClickEventsChannel = b.made + 1]

\* SetupRoutes: if ClickEventsChannel == nil { ClickEventsChannel = make(...) }
SetupRoutesChannel(b) ==
    IF b.ClickEventsChannel = NilChan
    THEN [b EXCEPT !.made = @ + 1, !.ClickEventsChannel = b.made + 1]
    ELSE b

----------------------------------------------------------------------------
(* Initial state: a migrated, empty database and a started server *)

Init ==
    /\ links = <<>>
    /\ clicks = <<>>
    /\ queue = <<>>
    /\ closed = FALSE
    /\ wpc = [w \in Workers |-> "recv"]
    /\ wevent = [w \in Workers |-> NoEvent]
    /\ call = [p \in Clients |-> IdleCall]
    /\ resp = NoResp
    /\ mainpc = "serving"
    /\ nCalls = 0
    /\ nextSeq = 0
    /\ dropped = {}
    /\ failed = {}
    /\ dequeues = [s \in Seqs |-> 0]
    /\ attempts = [s \in Seqs |-> 0]
    /\ batch = IdleBatch
    /\ MonitorInit
    /\ boot = Booted

pipeVars == <<queue, closed, wpc, wevent, nextSeq, dropped, failed,
              dequeues, attempts, clicks>>

----------------------------------------------------------------------------
(* POST /links with one URL: handleSingleURL calling CreateLink *)

CreateLinkCall(p, longURL) ==
    /\ Serving
    /\ call[p].pc \in {"idle", "done"}
    /\ nCalls < MaxCalls
    /\ call' = [call EXCEPT ![p] = NewCall(longURL)]
    /\ nCalls' = nCalls + 1
    /\ UNCHANGED <<links, resp, mainpc>>
    /\ UNCHANGED pipeVars
    /\ UNCHANGED <<batch, monVars, boot>>

CreateLinkAttempt(p, t, dbfault) ==
    /\ Serving
    /\ call[p].pc = "loop"
    /\ LET c == CreateLinkIteration(call[p], links, t, dbfault)
       IN  call' = [call EXCEPT ![p] = handleSingleURL(c)]
    /\ UNCHANGED <<links, resp, mainpc, nCalls>>
    /\ UNCHANGED pipeVars
    /\ UNCHANGED <<batch, monVars, boot>>

CreateLinkRandError(p) ==
    /\ Serving
    /\ call[p].pc = "loop"
    /\ LET c == CreateLinkRandFailure(call[p])
       IN  call' = [call EXCEPT ![p] = handleSingleURL(c)]
    /\ UNCHANGED <<links, resp, mainpc, nCalls>>
    /\ UNCHANGED pipeVars
    /\ UNCHANGED <<batch, monVars, boot>>

CreateLinkStore(p, dbfault) ==
    /\ Serving
    /\ call[p].pc = "insert"
    /\ LET r == CreateLinkInsert(call[p], links, Now, dbfault)
       IN  /\ links' = r.rows
           /\ call' = [call EXCEPT ![p] = handleSingleURL(r.call)]
    /\ UNCHANGED <<resp, mainpc, nCalls>>
    /\ UNCHANGED pipeVars
    /\ UNCHANGED <<batch, monVars, boot>>

----------------------------------------------------------------------------
(* GET /:shortCode *)

\* A handler that sends an event of no Link when the lookup failed.
RedirectMissEnqueues(code, dbfault) ==
    /\ Serving
    /\ LET r == GetLinkByShortCode(links, code, dbfault)
       IN  /\ r.err # NoErr
           /\ resp' = [handler |-> "redirect", code |-> code, dberr |-> dbfault,
                       status |-> LookupErrorStatus(r.err)]
    /\ queue' = TrySend(queue, BufferSize, NoEvent).queue
    /\ UNCHANGED <<links, call, mainpc, nCalls>>
    /\ UNCHANGED <<closed, wpc, wevent, nextSeq, dropped, failed, dequeues,
                   attempts, clicks>>
    /\ UNCHANGED <<batch, monVars, boot>>

\* The lookup failed: 404 or 500, nothing is enqueued. dberr is history:
\* whether the store failed during the request.
RedirectMiss(code, dbfault) ==
    /\ Serving
    /\ LET r == GetLinkByShortCode(links, code, dbfault)
       IN  /\ r.err # NoErr
           /\ resp' = [handler |-> "redirect", code |-> code, dberr |-> dbfault,
                       status |-> LookupErrorStatus(r.err)]
    /\ UNCHANGED <<links, call, mainpc, nCalls>>
    /\ UNCHANGED pipeVars
    /\ UNCHANGED <<batch, monVars, boot>>

\* The lookup succeeded: build the ClickEvent, try to send it, redirect.
\* (A send on a closed channel panics; gin's recovery answers 500.)
RedirectHandler(code, ua) ==
    /\ Serving
    /\ nextSeq < MaxRedirects
    /\ LET r == GetLinkByShortCode(links, code, FALSE)
           ev == ClickEvent(r.link, Now, ua, ClientIP, nextSeq + 1)
           s == TrySend(queue, BufferSize, ev)
       IN  /\ r.err = NoErr
           /\ IF closed
              THEN /\ resp' = [handler |-> "redirect", code |-> code,
                               dberr |-> FALSE, status |-> 500]
                   /\ UNCHANGED <<queue, dropped>>
              ELSE /\ queue' = s.queue
                   /\ dropped' = IF s.sent THEN dropped ELSE dropped \cup {ev.seq}
                   /\ resp' = [handler |-> "redirect", code |-> code,
                               dberr |-> FALSE, status |-> 302,
                               location |-> r.link.LongURL, seq |-> ev.seq]
    /\ nextSeq' = nextSeq + 1
    /\ UNCHANGED <<batch, monVars, boot>>
    /\ UNCHANGED <<links, clicks, closed, wpc, wevent, call, mainpc, nCalls,
                   failed, dequeues, attempts>>

----------------------------------------------------------------------------
(* GET /api/v1/links/:shortCode/stats *)

GetLinkStatsHandler(code, dbfault, countfault) ==
    /\ Serving
    /\ LET r == GetLinkStats(links, clicks, code, dbfault, countfault)
       IN  resp' = IF r.err # NoErr
                   THEN [handler |-> "stats", code |-> code,
                         dberr |-> dbfault \/ countfault,
                         status |-> LookupErrorStatus(r.err)]
                   ELSE [handler |-> "stats", code |-> code,
                         dberr |-> FALSE, status |-> 200,
                         short_code |-> r.link.ShortCode,
                         long_url |-> r.link.LongURL,
                         total_clicks |-> r.total]
    /\ UNCHANGED <<links, call, mainpc, nCalls>>
    /\ UNCHANGED pipeVars
    /\ UNCHANGED <<batch, monVars, boot>>

----------------------------------------------------------------------------
(* Click workers: for event := range clickEventsChan { ... } *)

\* A receive that reads the head of the buffer and leaves it there.
WorkerRecvPeek(w) ==
    /\ Serving
    /\ wpc[w] = "recv"
    /\ queue # <<>>
    /\ wevent' = [wevent EXCEPT ![w] = Head(queue)]
    /\ wpc' = [wpc EXCEPT ![w] = "persist"]
    /\ dequeues' = [dequeues EXCEPT ![Head(queue).seq] = @ + 1]
    /\ UNCHANGED <<batch, monVars, boot>>
    /\ UNCHANGED <<links, clicks, queue, closed, call, resp, mainpc, nCalls,
                   nextSeq, dropped, failed, attempts>>

\* A receive that ends the loop whenever the buffer is empty.
WorkerRecvExitsWhenEmpty(w) ==
    /\ Serving
    /\ wpc[w] = "recv"
    /\ IF queue # <<>>
       THEN /\ wevent' = [wevent EXCEPT ![w] = Head(queue)]
            /\ queue' = Tail(queue)
            /\ wpc' = [wpc EXCEPT ![w] = "persist"]
            /\ dequeues' = [dequeues EXCEPT ![Head(queue).seq] = @ + 1]
       ELSE /\ wpc' = [wpc EXCEPT ![w] = "exited"]
            /\ UNCHANGED <<wevent, queue, dequeues>>
    /\ UNCHANGED <<batch, monVars, boot>>
    /\ UNCHANGED <<links, clicks, closed, call, resp, mainpc, nCalls,
                   nextSeq, dropped, failed, attempts>>

\* A receive that takes the newest event of the buffer.
WorkerRecvNewest(w) ==
    /\ Serving
    /\ wpc[w] = "recv"
    /\ IF queue # <<>>
       THEN /\ wevent' = [wevent EXCEPT ![w] = queue[Len(queue)]]
            /\ queue' = SubSeq(queue, 1, Len(queue) - 1)
            /\ wpc' = [wpc EXCEPT ![w] = "persist"]
            /\ dequeues' = [dequeues EXCEPT ![queue[Len(queue)].seq] = @ + 1]
       ELSE /\ closed
            /\ wpc' = [wpc EXCEPT ![w] = "exited"]
            /\ UNCHANGED <<wevent, queue, dequeues>>
    /\ UNCHANGED <<batch, monVars, boot>>
    /\ UNCHANGED <<links, clicks, closed, call, resp, mainpc, nCalls,
                   nextSeq, dropped, failed, attempts>>

\* A worker that receives again while it still holds an event.
WorkerRecvWhileBusy(w) ==
    /\ Serving
    /\ wpc[w] \in {"recv", "persist"}
    /\ IF queue # <<>>
       THEN /\ wevent' = [wevent EXCEPT ![w] = Head(queue)]
            /\ queue' = Tail(queue)
            /\ wpc' = [wpc EXCEPT ![w] = "persist"]
            /\ dequeues' = [dequeues EXCEPT ![Head(queue).seq] = @ + 1]
       ELSE /\ closed
            /\ wpc' = [wpc EXCEPT ![w] = "exited"]
            /\ UNCHANGED <<wevent, queue, dequeues>>
    /\ UNCHANGED <<batch, monVars, boot>>
    /\ UNCHANGED <<links, clicks, closed, call, resp, mainpc, nCalls,
                   nextSeq, dropped, failed, attempts>>

\* The receive of the range loop: the head of the buffer, or the end of the
\* loop when the channel is closed and empty; it blocks otherwise.
WorkerRecv(w) ==
    /\ Serving
    /\ wpc[w] = "recv"
    /\ IF queue # <<>>
       THEN /\ wevent' = [wevent EXCEPT ![w] = Head(queue)]
            /\ queue' = Tail(queue)
            /\ wpc' = [wpc EXCEPT ![w] = "persist"]
            /\ dequeues' = [dequeues EXCEPT ![Head(queue).seq] = @ + 1]
       ELSE /\ closed
            /\ wpc' = [wpc EXCEPT ![w] = "exited"]
            /\ UNCHANGED <<wevent, queue, dequeues>>
    /\ UNCHANGED <<batch, monVars, boot>>
    /\ UNCHANGED <<links, clicks, closed, call, resp, mainpc, nCalls,
                   nextSeq, dropped, failed, attempts>>

\* A loop body that sends the event back to the channel when the persist
\* failed.
WorkerPersistRequeue(w, dbfault) ==
    /\ Serving
    /\ wpc[w] = "persist"
    /\ LET r == RepoCreateClick(clicks, ClickFromEvent(wevent[w]), dbfault)
       IN  /\ clicks' = r.rows
           /\ failed' = IF r.err # NoErr THEN failed \cup {wevent[w].seq}
                        ELSE failed
           /\ queue' = IF r.err # NoErr
                       THEN TrySend(queue, BufferSize, wevent[w]).queue
                       ELSE queue
    /\ attempts' = [attempts EXCEPT ![wevent[w].seq] = @ + 1]
    /\ wpc' = [wpc EXCEPT ![w] = "recv"]
    /\ wevent' = [wevent EXCEPT ![w] = NoEvent]
    /\ UNCHANGED <<batch, monVars, boot>>
    /\ UNCHANGED <<links, closed, call, resp, mainpc, nCalls,
                   nextSeq, dropped, dequeues>>

\* The body of the loop: build the Click, try to persist it, log.
WorkerPersist(w, dbfault) ==
    /\ Serving
    /\ wpc[w] = "persist"
    /\ LET r == RepoCreateClick(clicks, ClickFromEvent(wevent[w]), dbfault)
       IN  /\ clicks' = r.rows
           /\ failed' = IF r.err # NoErr THEN failed \cup {wevent[w].seq}
                        ELSE failed
    /\ attempts' = [attempts EXCEPT ![wevent[w].seq] = @ + 1]
    /\ wpc' = [wpc EXCEPT ![w] = "recv"]
    /\ wevent' = [wevent EXCEPT ![w] = NoEvent]
    /\ UNCHANGED <<batch, monVars, boot>>
    /\ UNCHANGED <<links, queue, closed, call, resp, mainpc, nCalls,
                   nextSeq, dropped, dequeues>>

----------------------------------------------------------------------------
(* RunServerCmd.Run after the server has started *)

\* <-quit: log, then time.Sleep(5 * time.Second)
ShutdownSignal ==
    /\ mainpc = "serving"
    /\ mainpc' = "grace"
    /\ UNCHANGED <<links, call, resp, nCalls>>
    /\ UNCHANGED pipeVars
    /\ UNCHANGED <<batch, monVars, boot>>

\* The sleep is over: Run returns and the process ends with its goroutines.
ProcessExit ==
    /\ mainpc = "grace"
    /\ mainpc' = "exited"
    /\ UNCHANGED <<links, call, resp, nCalls>>
    /\ UNCHANGED pipeVars
    /\ UNCHANGED <<batch, monVars, boot>>

----------------------------------------------------------------------------
(* POST /links: CreateShortLinkHandler *)

\* The handler up to its first CreateLink call: bind, collect the URLs,
\* answer 400 to a body that does not bind or holds no URL, else route to
\* handleSingleURL or handleMultipleURLs.
CreateShortLinkHandler(req) ==
    /\ Serving
    /\ batch.pc = "idle"
    /\ LET urls == urlsToProcess(req)
       IN  batch' =
              IF ~ShouldBindJSON(req)
              THEN [IdleBatch EXCEPT !.pc = "done", !.route = "invalid",
                                     !.status = 400]
              ELSE IF Len(urls) = 0
              THEN [IdleBatch EXCEPT !.pc = "done", !.route = "empty",
                                     !.status = 400]
              ELSE [IdleBatch EXCEPT
                       !.pc = "loop",
                       !.route = IF Len(urls) > 1 THEN "multiple" ELSE "single",
                       !.urls = urls,
                       !.call = NewCall(urls[1]),
                       !.calls = <<urls[1]>>]
    /\ nCalls' = nCalls + Len(batch'.calls)
    /\ UNCHANGED <<links, call, resp, mainpc, monVars, boot>>
    /\ UNCHANGED pipeVars

\* One iteration of the retry loop of the CreateLink call in progress.
HandlerCreateLinkAttempt(t, dbfault) ==
    /\ Serving
    /\ batch.pc = "loop"
    /\ batch.call.pc = "loop"
    /\ LET c == CreateLinkIteration(batch.call, links, t, dbfault)
       IN  batch' = AfterCreateLink([batch EXCEPT !.call = c])
    /\ nCalls' = nCalls + (Len(batch'.calls) - Len(batch.calls))
    /\ UNCHANGED <<links, call, resp, mainpc, monVars, boot>>
    /\ UNCHANGED pipeVars

HandlerCreateLinkRandError ==
    /\ Serving
    /\ batch.pc = "loop"
    /\ batch.call.pc = "loop"
    /\ LET c == CreateLinkRandFailure(batch.call)
       IN  batch' = AfterCreateLink([batch EXCEPT !.call = c])
    /\ nCalls' = nCalls + (Len(batch'.calls) - Len(batch.calls))
    /\ UNCHANGED <<links, call, resp, mainpc, monVars, boot>>
    /\ UNCHANGED pipeVars

\* The insert of the CreateLink call in progress.
HandlerCreateLinkStore(dbfault) ==
    /\ Serving
    /\ batch.pc = "loop"
    /\ batch.call.pc = "insert"
    /\ LET r == CreateLinkInsert(batch.call, links, Now, dbfault)
       IN  /\ links' = r.rows
           /\ batch' = AfterCreateLink([batch EXCEPT !.call = r.call])
    /\ nCalls' = nCalls + (Len(batch'.calls) - Len(batch.calls))
    /\ UNCHANGED <<call, resp, mainpc, monVars, boot>>
    /\ UNCHANGED pipeVars

----------------------------------------------------------------------------
(* UrlMonitor.Start: checkUrls at once, then on every tick *)

\* A monitor that gives up for good when the links cannot be fetched.
checkUrlsStopsOnError(dbfault) ==
    /\ Serving
    /\ mpc = "wait"
    /\ Len(checks) < MaxChecks
    /\ LET r == RepoGetAllLinks(links, dbfault)
       IN  /\ checks' = Append(checks, IF r.err # NoErr THEN "failed" ELSE "ok")
           /\ mlinks' = r.links
           /\ mpc' = IF r.err # NoErr THEN "stopped"
                     ELSE IF r.links = <<>> THEN "wait" ELSE "loop"
    /\ UNCHANGED <<knownStates, notifications, nProbes, lastProbe>>
    /\ UNCHANGED <<mu, mbody, boot>>
    /\ UNCHANGED <<links, call, resp, mainpc, nCalls, batch>>
    /\ UNCHANGED pipeVars

\* checkUrls up to its range loop: fetch the links; on an error log it and
\* return.
checkUrls(dbfault) ==
    /\ Serving
    /\ mpc = "wait"
    /\ Len(checks) < MaxChecks
    /\ LET r == RepoGetAllLinks(links, dbfault)
       IN  /\ checks' = Append(checks, IF r.err # NoErr THEN "failed" ELSE "ok")
           /\ mlinks' = r.links
           /\ mpc' = IF r.err # NoErr \/ r.links = <<>> THEN "wait" ELSE "loop"
    /\ UNCHANGED <<knownStates, notifications, nProbes, lastProbe>>
    /\ UNCHANGED <<mu, mbody, boot>>
    /\ UNCHANGED <<links, call, resp, mainpc, nCalls, batch>>
    /\ UNCHANGED pipeVars

\* A loop body that writes knownStates only on the first observation of a
\* link.
checkUrlsLinkKeepsFirst(o) ==
    /\ Serving
    /\ mpc = "loop"
    /\ LET link == Head(mlinks)
           currentState == isUrlAccessible(o)
           exists == link.ID \in DOMAIN knownStates
           previousState == IF exists THEN knownStates[link.ID] ELSE FALSE
       IN  /\ knownStates' =
                 [id \in DOMAIN knownStates \cup {link.ID} |->
                     IF id = link.ID /\ ~exists THEN currentState
                     ELSE knownStates[id]]
           /\ notifications' =
                 LogChange(notifications, link, exists, previousState,
                           currentState)
           /\ nProbes' = [nProbes EXCEPT ![link.ID] = @ + 1]
    /\ lastProbe' = o
    /\ mlinks' = Tail(mlinks)
    /\ mpc' = IF Tail(mlinks) = <<>> THEN "wait" ELSE "loop"
    /\ UNCHANGED <<checks, mu, mbody, boot>>
    /\ UNCHANGED <<links, call, resp, mainpc, nCalls, batch>>
    /\ UNCHANGED pipeVars

\* One pass of the range loop: probe the link, swap the state in
\* knownStates under the mutex, log.
checkUrlsLink(o) ==
    /\ Serving
    /\ mpc = "loop"
    /\ LET link == Head(mlinks)
           currentState == isUrlAccessible(o)
           exists == link.ID \in DOMAIN knownStates
           previousState == IF exists THEN knownStates[link.ID] ELSE FALSE
       IN  /\ knownStates' =
                 [id \in DOMAIN knownStates \cup {link.ID} |->
                     IF id = link.ID THEN currentState ELSE knownStates[id]]
           /\ notifications' =
                 LogChange(notifications, link, exists, previousState,
                           currentState)
           /\ nProbes' = [nProbes EXCEPT ![link.ID] = @ + 1]
    /\ lastProbe' = o
    /\ mlinks' = Tail(mlinks)
    /\ mpc' = IF Tail(mlinks) = <<>> THEN "wait" ELSE "loop"
    /\ UNCHANGED <<checks, mu, mbody, boot>>
    /\ UNCHANGED <<links, call, resp, mainpc, nCalls, batch>>
    /\ UNCHANGED pipeVars

----------------------------------------------------------------------------
(* The loop body of checkUrls, statement by statement *)

\* What every statement of the loop body leaves alone.
bodyFrame == <<links, call, resp, mainpc, nCalls, batch, checks, boot>>

\* A loop body that takes the mutex before the probe.
checkUrlsProbeStartLocked ==
    /\ Serving
    /\ mpc = "loop"
    /\ mbody.at = "top"
    /\ mu = "free"
    /\ mu' = "held"
    /\ mbody' = [mbody EXCEPT !.at = "probing"]
    /\ UNCHANGED <<mpc, mlinks, knownStates, notifications, nProbes, lastProbe>>
    /\ UNCHANGED bodyFrame
    /\ UNCHANGED pipeVars

\* m.isUrlAccessible(link.LongURL) is called: the HEAD request is out.
checkUrlsProbeStart ==
    /\ Serving
    /\ mpc = "loop"
    /\ mbody.at = "top"
    /\ mbody' = [mbody EXCEPT !.at = "probing"]
    /\ UNCHANGED <<mpc, mlinks, knownStates, notifications, nProbes, lastProbe,
                   mu>>
    /\ UNCHANGED bodyFrame
    /\ UNCHANGED pipeVars

\* isUrlAccessible returns: currentState := ...
checkUrlsProbeEnd(o) ==
    /\ Serving
    /\ mpc = "loop"
    /\ mbody.at = "probing"
    /\ mbody' = [mbody EXCEPT !.at = "lock",
                              !.currentState = isUrlAccessible(o)]
    /\ lastProbe' = o
    /\ UNCHANGED <<mpc, mlinks, knownStates, notifications, nProbes, mu>>
    /\ UNCHANGED bodyFrame
    /\ UNCHANGED pipeVars

\* m.mu.Lock(): waits for the mutex to be free.
checkUrlsLock ==
    /\ Serving
    /\ mpc = "loop"
    /\ mbody.at = "lock"
    /\ mu = "free"
    /\ mu' = "held"
    /\ mbody' = [mbody EXCEPT !.at = "read"]
    /\ UNCHANGED <<mpc, mlinks, knownStates, notifications, nProbes, lastProbe>>
    /\ UNCHANGED bodyFrame
    /\ UNCHANGED pipeVars

\* previousState, exists := m.knownStates[link.ID]
checkUrlsRead ==
    /\ Serving
    /\ mpc = "loop"
    /\ mbody.at = "read"
    /\ LET id == Head(mlinks).ID
           exists == id \in DOMAIN knownStates
       IN  mbody' = [mbody EXCEPT
                        !.at = "write",
                        !.exists = exists,
                        !.previousState =
                            IF exists THEN knownStates[id] ELSE FALSE]
    /\ UNCHANGED <<mpc, mlinks, knownStates, notifications, nProbes, lastProbe,
                   mu>>
    /\ UNCHANGED bodyFrame
    /\ UNCHANGED pipeVars

\* m.knownStates[link.ID] = currentState
checkUrlsWrite ==
    /\ Serving
    /\ mpc = "loop"
    /\ mbody.at = "write"
    /\ LET link == Head(mlinks)
       IN  knownStates' =
              [id \in DOMAIN knownStates \cup {link.ID} |->
                  IF id = link.ID THEN mbody.currentState ELSE knownStates[id]]
    /\ mbody' = [mbody EXCEPT !.at = "unlock"]
    /\ UNCHANGED <<mpc, mlinks, notifications, nProbes, lastProbe, mu>>
    /\ UNCHANGED bodyFrame
    /\ UNCHANGED pipeVars

\* m.mu.Unlock()
checkUrlsUnlock ==
    /\ Serving
    /\ mpc = "loop"
    /\ mbody.at = "unlock"
    /\ mu' = "free"
    /\ mbody' = [mbody EXCEPT !.at = "log"]
    /\ UNCHANGED <<mpc, mlinks, knownStates, notifications, nProbes, lastProbe>>
    /\ UNCHANGED bodyFrame
    /\ UNCHANGED pipeVars

\* The rest of the body: the initial-state line or the [NOTIFICATION]
\* line, then the next link of the range.
checkUrlsLog ==
    /\ Serving
    /\ mpc = "loop"
    /\ mbody.at = "log"
    /\ notifications' =
          LogChange(notifications, Head(mlinks), mbody.exists,
                    mbody.previousState, mbody.currentState)
    /\ nProbes' = [nProbes EXCEPT ![Head(mlinks).ID] = @ + 1]
    /\ mlinks' = Tail(mlinks)
    /\ mpc' = IF Tail(mlinks) = <<>> THEN "wait" ELSE "loop"
    /\ mbody' = BodyTop
    /\ UNCHANGED <<knownStates, lastProbe, mu>>
    /\ UNCHANGED bodyFrame
    /\ UNCHANGED pipeVars

----------------------------------------------------------------------------

LinkNext ==
    \/ \E p \in Clients, u \in LongURLs : CreateLinkCall(p, u)
    \/ \E p \in Clients, t \in Tapes, f \in BOOLEAN : CreateLinkAttempt(p, t, f)
    \/ \E p \in Clients : CreateLinkRandError(p)
    \/ \E p \in Clients, f \in BOOLEAN : CreateLinkStore(p, f)

ClickNext ==
    \/ \E c \in LookupCodes, f \in BOOLEAN : RedirectMiss(c, f)
    \/ \E c \in LookupCodes, ua \in UserAgents : RedirectHandler(c, ua)
    \/ \E c \in LookupCodes, f \in BOOLEAN, g \in BOOLEAN : GetLinkStatsHandler(c, f, g)
    \/ \E w \in Workers : WorkerRecv(w)
    \/ \E w \in Workers, f \in BOOLEAN : WorkerPersist(w, f)
    \/ ShutdownSignal
    \/ ProcessExit

\* The Link Service alone.
SpecLinks == Init /\ [][LinkNext]_vars

\* A database that already holds the Link of one earlier CreateLink call.
SeededLinks ==
    CreateLinkInsert([NewCall("https://a.example") EXCEPT
                         !.shortCode = GenerateShortCode(codeLength, 1)],
                     <<>>, 0, FALSE).rows

InitSeeded ==
    /\ links = SeededLinks
    /\ clicks = <<>>
    /\ queue = <<>>
    /\ closed = FALSE
    /\ wpc = [w \in Workers |-> "recv"]
    /\ wevent = [w \in Workers |-> NoEvent]
    /\ call = [p \in Clients |-> IdleCall]
    /\ resp = NoResp
    /\ mainpc = "serving"
    /\ nCalls = 0
    /\ nextSeq = 0
    /\ dropped = {}
    /\ failed = {}
    /\ dequeues = [s \in Seqs |-> 0]
    /\ attempts = [s \in Seqs |-> 0]
    /\ batch = IdleBatch
    /\ MonitorInit
    /\ boot = Booted

\* The click pipeline alone, over that database.
SpecClicks == InitSeeded /\ [][ClickNext]_vars

\* The click pipeline when every persist succeeds, the process keeps
\* running and no more events are submitted than the channel can hold; the
\* Go scheduler runs every worker that can take a step.
FairNext ==
    \/ \E c \in LookupCodes, ua \in UserAgents :
          nextSeq < BufferSize /\ RedirectHandler(c, ua)
    \/ \E c \in LookupCodes, f \in BOOLEAN, g \in BOOLEAN : GetLinkStatsHandler(c, f, g)
    \/ \E w \in Workers : WorkerRecv(w)
    \/ \E w \in Workers : WorkerPersist(w, FALSE)

FairClicks ==
    /\ InitSeeded
    /\ [][FairNext]_vars
    /\ \A w \in Workers : WF_vars(WorkerRecv(w))
    /\ \A w \in Workers : WF_vars(WorkerPersist(w, FALSE))

\* One client creating Links next to redirects of the Links created so far
\* and one worker persisting their events: no store fault, and no more
\* redirects than the channel holds.
RoundTripNext ==
    \/ \E u \in LongURLs : CreateLinkCall(1, u)
    \/ \E t \in Tapes : CreateLinkAttempt(1, t, FALSE)
    \/ CreateLinkStore(1, FALSE)
    \/ \E c \in GenCodes :
          nextSeq < BufferSize /\ RedirectHandler(c, "curl/8")
    \/ WorkerRecv(1)
    \/ WorkerPersist(1, FALSE)

SpecRoundTrip == Init /\ [][RoundTripNext]_vars

\* A database that holds the Links of two earlier CreateLink calls.
SeededTwoLinks ==
    CreateLinkInsert([NewCall("https://b.example") EXCEPT
                         !.shortCode = GenerateShortCode(codeLength, 2)],
                     SeededLinks, 0, FALSE).rows

SeededCodes == {SeededTwoLinks[i].ShortCode : i \in 1..Len(SeededTwoLinks)}

InitTwoLinks ==
    /\ links = SeededTwoLinks
    /\ clicks = <<>>
    /\ queue = <<>>
    /\ closed = FALSE
    /\ wpc = [w \in Workers |-> "recv"]
    /\ wevent = [w \in Workers |-> NoEvent]
    /\ call = [p \in Clients |-> IdleCall]
    /\ resp = NoResp
    /\ mainpc = "serving"
    /\ nCalls = 0
    /\ nextSeq = 0
    /\ dropped = {}
    /\ failed = {}
    /\ dequeues = [s \in Seqs |-> 0]
    /\ attempts = [s \in Seqs |-> 0]
    /\ batch = IdleBatch
    /\ MonitorInit
    /\ boot = Booted

\* Statistics requests next to redirects of two Links and the workers,
\* whose persists may fail.
StatsNext ==
    \/ \E c \in SeededCodes : RedirectHandler(c, "curl/8")
    \/ \E c \in SeededCodes \cup {NoSuchCode}, f \in BOOLEAN, g \in BOOLEAN :
          GetLinkStatsHandler(c, f, g)
    \/ \E w \in Workers : WorkerRecv(w)
    \/ \E w \in Workers, f \in BOOLEAN : WorkerPersist(w, f)

SpecStats == InitTwoLinks /\ [][StatsNext]_vars

\* The monitor next to one client creating Links for one URL, with no
\* fault in the store while a Link is created, and with probes that meet a
\* 200 or a 404.
MonitorNext ==
    \/ CreateLinkCall(1, "https://a.example")
    \/ \E t \in Tapes : CreateLinkAttempt(1, t, FALSE)
    \/ CreateLinkStore(1, FALSE)
    \/ \E f \in BOOLEAN : checkUrls(f)
    \/ \E st \in {200, 404} :
          checkUrlsLink([kind |-> "response", status |-> st])

SpecMonitor == Init /\ [][MonitorNext]_vars

\* The monitor over a database holding one Link, with probes that meet
\* every outcome.
ProbeNext ==
    \/ \E f \in BOOLEAN : checkUrls(f)
    \/ \E o \in ProbeOutcomes : checkUrlsLink(o)

SpecProbe == InitSeeded /\ [][ProbeNext]_vars

\* One POST /links request, from its body to its response.
BatchNext ==
    \/ \E req \in Requests : CreateShortLinkHandler(req)
    \/ \E t \in Tapes, f \in BOOLEAN : HandlerCreateLinkAttempt(t, f)
    \/ HandlerCreateLinkRandError
    \/ \E f \in BOOLEAN : HandlerCreateLinkStore(f)

SpecBatch == Init /\ [][BatchNext]_vars

\* Every kind of operation once over: one client creating Links for one
\* URL, one redirect, statistics requests, one worker, and one checkUrls
\* call of the monitor with probes that meet a 200 or a 404.
FrameNext ==
    \/ CreateLinkCall(1, "https://a.example")
    \/ \E t \in Tapes : CreateLinkAttempt(1, t, FALSE)
    \/ \E f \in BOOLEAN : CreateLinkStore(1, f)
    \/ \E c \in GenCodes : nextSeq = 0 /\ RedirectHandler(c, "curl/8")
    \/ \E c \in GenCodes : GetLinkStatsHandler(c, FALSE, FALSE)
    \/ WorkerRecv(1)
    \/ \E f \in BOOLEAN : WorkerPersist(1, f)
    \/ checks = <<>> /\ checkUrls(FALSE)
    \/ \E st \in {200, 404} :
          checkUrlsLink([kind |-> "response", status |-> st])

SpecFrame == Init /\ [][FrameNext]_vars

\* The monitor over a database holding two Links, its loop body taken
\* statement by statement.
LockNext ==
    \/ \E f \in BOOLEAN : checkUrls(f)
    \/ checkUrlsProbeStart
    \/ \E o \in ProbeOutcomes : checkUrlsProbeEnd(o)
    \/ checkUrlsLock
    \/ checkUrlsRead
    \/ checkUrlsWrite
    \/ checkUrlsUnlock
    \/ checkUrlsLog

SpecLock == InitTwoLinks /\ [][LockNext]_vars

\* The whole server: requests, workers, monitor and shutdown.
Next == LinkNext \/ ClickNext \/ BatchNext \/ ProbeNext

Spec == Init /\ [][Next]_vars

----------------------------------------------------------------------------
(* Start-up of the click pipeline, then redirects and workers *)

bootFrame == <<links, clicks, queue, closed, wpc, wevent, call, resp, mainpc,
               nCalls, nextSeq, dropped, failed, dequeues, attempts, batch,
               monVars>>

\* clickEventsChan := make(chan models.ClickEvent, cfg.Analytics.BufferSize)
RunMakeChannel ==
    /\ boot.pc = "make"
    /\ boot' = [boot EXCEPT !.pc = "assign", !.made = @ + 1,
                            !.clickEventsChan = boot.made + 1]
    /\ UNCHANGED bootFrame

\* api.ClickEventsChannel = clickEventsChan
RunSetChannel ==
    /\ boot.pc = "assign"
    /\ boot' = [boot EXCEPT !.pc = "workers",
                            !.ClickEventsChannel = boot.clickEventsChan]
    /\ UNCHANGED bootFrame

\* workers.StartClickWorkers(..., clickEventsChan, clickRepo): every worker
\* goroutine is given the channel of Run.
StartClickWorkers ==
    /\ boot.pc = "workers"
    /\ boot' = [boot EXCEPT !.pc = "routes",
                            !.workerChan = [w \in Workers |-> boot.clickEventsChan]]
    /\ UNCHANGED bootFrame

\* api.SetupRoutes(router, linkService, bufferSize), then the HTTP server
\* is started.
SetupRoutes ==
    /\ boot.pc = "routes"
    /\ boot' = [SetupRoutesChannel(boot) EXCEPT !.pc = "serving"]
    /\ UNCHANGED bootFrame

\* The redirect handler runs once the server listens; `queue` is the buffer
\* of the channel api.ClickEventsChannel holds.
BootRedirectHandler(code, ua) ==
    /\ boot.pc = "serving"
    /\ RedirectHandler(code, ua)

\* A worker receives from `queue` when the channel it was given is the one
\* api.ClickEventsChannel holds; on any other channel it waits for ever.
BootWorkerRecv(w) ==
    /\ boot.workerChan[w] # NilChan
    /\ boot.workerChan[w] = boot.ClickEventsChannel
    /\ WorkerRecv(w)

BootWorkerPersist(w, dbfault) ==
    /\ boot.workerChan[w] # NilChan
    /\ WorkerPersist(w, dbfault)

BootNext ==
    \/ RunMakeChannel
    \/ RunSetChannel
    \/ StartClickWorkers
    \/ SetupRoutes
    \/ \E c \in LookupCodes, ua \in UserAgents : BootRedirectHandler(c, ua)
    \/ \E w \in Workers : BootWorkerRecv(w)
    \/ \E w \in Workers, f \in BOOLEAN : BootWorkerPersist(w, f)

InitBoot ==
    /\ links = SeededLinks
    /\ clicks = <<>>
    /\ queue = <<>>
    /\ closed = FALSE
    /\ wpc = [w \in Workers |-> "recv"]
    /\ wevent = [w \in Workers |-> NoEvent]
    /\ call = [p \in Clients |-> IdleCall]
    /\ resp = NoResp
    /\ mainpc = "serving"
    /\ nCalls = 0
    /\ nextSeq = 0
    /\ dropped = {}
    /\ failed = {}
    /\ dequeues = [s \in Seqs |-> 0]
    /\ attempts = [s \in Seqs |-> 0]
    /\ batch = IdleBatch
    /\ MonitorInit
    /\ boot = Unbooted

\* The click pipeline from the start of Run, over a database that holds
\* one Link.
SpecBoot == InitBoot /\ [][BootNext]_vars

----------------------------------------------------------------------------
(* Properties *)

ClickRows == {clicks[i] : i \in 1..Len(clicks)}
QueuedSeqs == {queue[i].seq : i \in 1..Len(queue)}
HeldSeqs == {wevent[w].seq : w \in {x \in Workers : wpc[x] = "persist"}}
PersistedSeqs == {clicks[i].seq : i \in 1..Len(clicks)}

\* No two rows of the links table carry the same short_code.
NoDuplicateShortCode ==
    \A i, j \in 1..Len(links) :
        i # j => links[i].ShortCode # links[j].ShortCode

\* The insert step of a call whose code another call has inserted since its
\* existence check.
LateInsertRejected ==
    \A p \in Clients :
        (/\ call[p].pc = "insert"
         /\ HasCode(links, call[p].shortCode)
         /\ call'[p].pc = "done")
        => /\ links' = links
           /\ call'[p].err # NoErr
           /\ call'[p].link = NoLink

\* C1: no two Links ever share a short_code, and a CreateLink call whose
\* candidate code has been inserted by another call between its existence
\* check and its own insert leaves the table as it is and returns an error
\* and no Link.
C1_UniqueUnderRace == []NoDuplicateShortCode /\ [][LateInsertRejected]_vars

\* Two calls passed the existence check with the same code and the second
\* insert met the unique index.
C1_Witness ==
    \E p, q \in Clients :
        /\ p # q
        /\ call[p].pc = "done" /\ call[q].pc = "done"
        /\ call[q].err = NoErr
        /\ call[p].shortCode = call[q].shortCode
        /\ ErrorsIs(call[p].err, ErrUniqueConstraint)

\* C2 as stated: a call whose first k-1 codes collided and whose k-th code
\* (k in 1..5) passed the existence check has persisted exactly one new Link
\* carrying that code and returned it without error.
C2_FreeCodeAlwaysSucceeds ==
    \A p \in Clients :
        (call[p].pc = "done" /\ call[p].shortCode # <<>>)
        => /\ call[p].err = NoErr
           /\ call[p].inserts = 1
           /\ call[p].link.ShortCode = call[p].code
           /\ call[p].link \in LinkRows

\* C2 as amended: k is at most 5, the call makes no further attempt after
\* the k-th code, and when the store accepts the insert the call has
\* persisted exactly one new Link carrying the k-th code and the submitted
\* URL and returned it without error.
C2_FreeCodeSucceedsIfStoreAccepts ==
    \A p \in Clients :
        (call[p].pc = "done" /\ call[p].shortCode # <<>>)
        => /\ call[p].hits + 1 \in 1..5
           /\ call[p].gens = call[p].hits + 1
           /\ call[p].shortCode = call[p].code
           /\ call[p].store = "accepted"
              => /\ call[p].err = NoErr
                 /\ call[p].inserts = 1
                 /\ call[p].link.ShortCode = call[p].code
                 /\ call[p].link.LongURL = call[p].longURL
                 /\ call[p].link \in LinkRows
                 /\ Cardinality({i \in 1..Len(links) :
                        links[i].ShortCode = call[p].code}) = 1

\* Four collisions, then a free code on the fifth attempt, inserted.
C2_Witness ==
    \E p \in Clients :
        /\ call[p].pc = "done"
        /\ call[p].hits = 4
        /\ call[p].gens = 5
        /\ call[p].store = "accepted"
        /\ call[p].err = NoErr

\* C3: a call all of whose 5 codes collided has made exactly 5 attempts and
\* no insert, and has failed with an error that errors.Is recognises as
\* ErrShortCodeGenerationFailed.
C3_ExhaustionIsGenerationFailed ==
    \A p \in Clients :
        (call[p].pc = "done" /\ call[p].hits = 5)
        => /\ call[p].gens = 5
           /\ call[p].store = "none"
           /\ call[p].link = NoLink
           /\ ErrorsIs(call[p].err, ErrShortCodeGenerationFailed)

\* A redirect of an existing Link served while the channel is full.
FullQueueRedirect ==
    (Len(queue) = BufferSize /\ nextSeq' = nextSeq + 1)
    => /\ queue' = queue
       /\ UNCHANGED <<wpc, wevent, clicks, failed>>
       /\ dropped' = dropped \cup {nextSeq + 1}
       /\ resp'.status = 302
       /\ resp'.seq = nextSeq + 1
       /\ resp'.location = RowByCode(links, resp'.code).LongURL

\* A dropped event is nowhere in the pipeline.
DroppedNeverPersisted ==
    /\ dropped \cap (QueuedSeqs \cup HeldSeqs \cup PersistedSeqs \cup failed) = {}
    /\ \A s \in dropped : dequeues[s] = 0 /\ attempts[s] = 0

\* With the channel full the handler can run, whatever the workers do.
FullQueueNeverBlocks ==
    (Serving /\ ~closed /\ Len(queue) = BufferSize /\ nextSeq < MaxRedirects)
    => \A c \in LookupCodes, ua \in UserAgents :
          HasCode(links, c) => ENABLED RedirectHandler(c, ua)

\* C4: a redirect served while the channel holds BufferSize events is not
\* held up by the workers, leaves the channel and the workers as they are,
\* records the event as dropped and answers 302; a dropped event is never
\* in the channel, in a worker or in the clicks table.
C4_DropOnFull ==
    /\ [](DroppedNeverPersisted /\ FullQueueNeverBlocks)
    /\ [][FullQueueRedirect]_vars

\* An event was dropped, and every event the channel accepted before it
\* has been persisted since.
C4_Witness ==
    /\ dropped # {}
    /\ Len(clicks) = BufferSize
    /\ resp.handler = "redirect" /\ resp.status = 302 /\ resp.seq \in dropped

\* The clicks table holds one Click per event built so far.
AllSubmittedPersisted ==
    /\ Len(clicks) = nextSeq
    /\ PersistedSeqs = 1..nextSeq
    /\ queue = <<>>

\* C5: when no more events are submitted than the channel holds, every
\* persist succeeds and the workers are scheduled, then from some point on
\* the clicks table holds exactly one Click per submitted event.
C5_AllEventuallyPersisted == <>[]AllSubmittedPersisted

\* As many events as the channel holds were submitted and persisted, not in
\* the order of submission.
C5_Witness ==
    /\ nextSeq = BufferSize
    /\ Len(clicks) = BufferSize
    /\ \E i, j \in 1..Len(clicks) : i < j /\ clicks[i].seq > clicks[j].seq

\* C6: every event leaves the channel at most once and causes at most one
\* CreateClick call; it is never at once in the channel and in a worker, or
\* in two workers, and no two Clicks come from the same event.
C6_ConsumedAtMostOnce ==
    /\ \A s \in Seqs :
          /\ dequeues[s] <= 1
          /\ attempts[s] <= dequeues[s]
          /\ s \in QueuedSeqs => dequeues[s] = 0
          /\ s \in HeldSeqs => dequeues[s] = 1 /\ attempts[s] = 0
          /\ s \in PersistedSeqs \cup failed => attempts[s] = 1
    /\ \A v, w \in Workers :
          (v # w /\ wpc[v] = "persist" /\ wpc[w] = "persist")
          => wevent[v].seq # wevent[w].seq
    /\ \A i, j \in 1..Len(queue) : i # j => queue[i].seq # queue[j].seq
    /\ \A i, j \in 1..Len(clicks) : i # j => clicks[i].seq # clicks[j].seq
    /\ PersistedSeqs \cap failed = {}

\* Two workers hold two different events at once while another event has
\* already been persisted.
C6_Witness ==
    /\ \E v, w \in Workers :
          v # w /\ wpc[v] = "persist" /\ wpc[w] = "persist"
    /\ clicks # <<>>

\* C7: once the shutdown signal has been received and the grace period
\* runs, the producers have been stopped and the channel has been closed.
C7_ShutdownOrder ==
    mainpc = "grace" => (closed /\ ~Serving)

\* C8: GetLinkByShortCode fails with ErrShortCodeNotFound when no Link has
\* the code, and returns the Link with that code otherwise.
C8_LookupMissIsShortCodeNotFound ==
    \A code \in LookupCodes :
        LET r == GetLinkByShortCode(links, code, FALSE)
        IN  IF HasCode(links, code)
            THEN r.err = NoErr /\ r.link.ShortCode = code /\ r.link \in LinkRows
            ELSE ErrorsIs(r.err, ErrShortCodeNotFound)

\* C9: when the store has not failed, the redirect and stats handlers answer
\* 404 for a code no Link has, and the redirect handler answers 302 with the
\* Link's long_url for a code a Link has.
C9_MissIs404 ==
    (resp.handler \in {"redirect", "stats"} /\ ~resp.dberr)
    => IF HasCode(links, resp.code)
       THEN resp.handler = "redirect"
            => /\ resp.status = 302
               /\ resp.location = RowByCode(links, resp.code).LongURL
       ELSE resp.status = 404

\* C10: a single-URL POST /links is answered 201 when CreateLink succeeds,
\* 503 when it fails after 5 collisions and 500 when it fails otherwise.
C10_CreateStatus ==
    \A p \in Clients :
        call[p].pc = "done"
        => call[p].status =
              IF call[p].err = NoErr THEN 201
              ELSE IF call[p].hits = 5 /\ call[p].store = "none" THEN 503
              ELSE 500

\* A successful call's Link is what a lookup by its short_code returns.
CreatedLinkRetrievable ==
    \A p \in Clients :
        (call[p].pc = "done" /\ call[p].err = NoErr)
        => LET r == GetLinkByShortCode(links, call[p].link.ShortCode, FALSE)
           IN  /\ r.err = NoErr
               /\ r.link = call[p].link
               /\ r.link.LongURL = call[p].longURL
               /\ r.link.ShortCode = call[p].code

\* A Link a lookup returns now is what the same lookup returns after any
\* step.
LookupStable ==
    \A i \in 1..Len(links) :
        LET r == GetLinkByShortCode(links', links[i].ShortCode, FALSE)
        IN  r.err = NoErr /\ r.link = links[i]

\* C11: when the store answers, a lookup by the short_code a successful
\* CreateLink(u) returned yields the Link with that code and long_url u, in
\* the state the call returned in and after every later create, redirect
\* and worker persist.
C11_RoundTrip == []CreatedLinkRetrievable /\ [][LookupStable]_vars

\* The first Link created is looked up and redirected to after a second
\* Link was created and a click was persisted.
C11_Witness ==
    /\ Len(links) = 2
    /\ clicks # <<>>
    /\ call[1].pc = "done" /\ call[1].err = NoErr /\ call[1].link.ID = 2
    /\ resp.handler = "redirect" /\ resp.status = 302
    /\ resp.code = links[1].ShortCode
    /\ resp.location = links[1].LongURL
    /\ links[1].LongURL # links[2].LongURL

\* The 62 symbols a-z, A-Z, 0-9.
Alphabet ==
    {"a","b","c","d","e","f","g","h","i","j","k","l","m","n","o","p","q",
     "r","s","t","u","v","w","x","y","z"}
    \cup
    {"A","B","C","D","E","F","G","H","I","J","K","L","M","N","O","P","Q",
     "R","S","T","U","V","W","X","Y","Z"}
    \cup
    {"0","1","2","3","4","5","6","7","8","9"}

WellFormedCode(code) ==
    /\ Len(code) = 6
    /\ \A i \in 1..Len(code) : code[i] \in Alphabet

\* C12: every Link a successful CreateLink returned and every row of the
\* links table has a short_code of exactly 6 characters, all of them among
\* the 62 symbols a-z, A-Z, 0-9, which is where every index rand.Int can
\* return leads.
C12_CodeShape ==
    /\ Cardinality(Alphabet) = 62
    /\ \A n \in 0..(Len(charset) - 1) : charset[n + 1] \in Alphabet
    /\ \A i \in 1..Len(links) : WellFormedCode(links[i].ShortCode)
    /\ \A p \in Clients :
          (call[p].pc = "done" /\ call[p].err = NoErr)
          => /\ WellFormedCode(call[p].link.ShortCode)
             /\ call[p].link \in LinkRows

\* Two calls have returned two Links with different codes, one of them
\* after a collision.
C12_Witness ==
    /\ Len(links) = 2
    /\ \A p \in Clients : call[p].pc = "done" /\ call[p].err = NoErr
    /\ \E p \in Clients : call[p].hits > 0

\* The Clicks persisted for the Link with primary key id, by the event
\* each came from.
PersistedSeqsOfLink(id) ==
    {s \in PersistedSeqs :
        \E i \in 1..Len(clicks) : clicks[i].seq = s /\ clicks[i].LinkID = id}

\* The sum of the totals GetLinkStats returns for the first n Links.
RECURSIVE SumOfTotals(_)
SumOfTotals(n) ==
    IF n = 0 THEN 0
    ELSE GetLinkStats(links, clicks, links[n].ShortCode, FALSE, FALSE).total
         + SumOfTotals(n - 1)

\* What GetLinkStats returns in the current state: per Link the Clicks
\* persisted for it, and over all Links the events built so far less those
\* in the channel, held by a worker, dropped or failed.
StatsCountDurable ==
    /\ \A code \in LookupCodes :
          LET r == GetLinkStats(links, clicks, code, FALSE, FALSE)
          IN  HasCode(links, code)
              => /\ r.err = NoErr
                 /\ r.link = RowByCode(links, code)
                 /\ r.total = Cardinality(PersistedSeqsOfLink(r.link.ID))
    /\ SumOfTotals(Len(links)) =
          Cardinality((1..nextSeq)
                         \ (QueuedSeqs \cup HeldSeqs \cup dropped \cup failed))

\* The answer of the statistics handler to a request.
StatsAnswer ==
    (resp'.handler = "stats" /\ resp'.status = 200 /\ resp' # resp)
    => LET r == GetLinkStats(links, clicks, resp'.code, FALSE, FALSE)
       IN  /\ resp'.short_code = resp'.code
           /\ resp'.long_url = r.link.LongURL
           /\ resp'.total_clicks = r.total
           /\ resp'.total_clicks =
                 Cardinality({i \in 1..Len(clicks') :
                                 clicks'[i].LinkID = r.link.ID})

\* C13: GetLinkStats for the code of an existing Link returns that Link and
\* the number of rows of the clicks table whose link_id is the Link's
\* primary key at the time of the call; events of that Link that are in
\* the channel, held by a worker, dropped or whose persist failed, and
\* the Clicks of other Links, are not counted.
C13_StatsCountDurable == []StatsCountDurable /\ [][StatsAnswer]_vars

\* Statistics answered 3 for a Link after exactly three persists for it.
C13_Witness ==
    /\ resp.handler = "stats" /\ resp.status = 200
    /\ resp.total_clicks = 3
    /\ Len(clicks) = 3
    /\ nextSeq = 3
    /\ \A i \in 1..Len(clicks) :
          clicks[i].LinkID = RowByCode(links, resp.code).ID

\* The step is a probe of the Link with primary key id.
ProbeStep(id) == nProbes'[id] = nProbes[id] + 1

\* What a probe of a Link adds to the log.
ProbeNotifies ==
    \A id \in LinkIDs :
        ProbeStep(id)
        => LET cur == knownStates'[id]
           IN  IF nProbes[id] = 0
               THEN notifications' = notifications
               ELSE IF cur # knownStates[id]
               THEN notifications' =
                       Append(notifications,
                              [ShortCode |-> links[id].ShortCode,
                               LongURL |-> links[id].LongURL,
                               from |-> formatState(knownStates[id]),
                               to |-> formatState(cur)])
               ELSE notifications' = notifications

\* Nothing but a probe adds to the log.
OnlyProbesNotify ==
    (\A id \in LinkIDs : ~ProbeStep(id)) => notifications' = notifications

\* The monitor knows a state for exactly the Links it has probed.
KnownIffProbed ==
    DOMAIN knownStates = {id \in LinkIDs : nProbes[id] > 0}

\* C14: the first probe the monitor makes of a Link logs no notification;
\* every later probe of it logs exactly one notification when its result
\* differs from the state last known for the Link and none when it does
\* not; nothing else logs a notification.
C14_NotifyOnChangeOnly ==
    /\ []KnownIffProbed
    /\ [][ProbeNotifies /\ OnlyProbesNotify]_vars

\* A Link was probed on two checks, accessible and then inaccessible, and
\* the log holds that one notification.
C14_Witness ==
    /\ nProbes[1] = 2
    /\ knownStates[1] = FALSE
    /\ notifications =
          <<[ShortCode |-> links[1].ShortCode, LongURL |-> links[1].LongURL,
             from |-> "ACCESSIBLE", to |-> "INACCESSIBLE"]>>

\* A checkUrls call whose GetAllLinks failed.
FetchFailureSkipsCheck ==
    (Len(checks') = Len(checks) + 1 /\ checks'[Len(checks')] = "failed")
    => /\ mpc' = "wait"
       /\ UNCHANGED <<knownStates, notifications, nProbes, lastProbe>>

\* The range loop runs only in a check whose GetAllLinks succeeded.
LoopOnlyAfterFetch ==
    mpc = "loop" => checks[Len(checks)] = "ok"

\* After a failed check the monitor is back on its ticker.
NextCheckAfterFailure ==
    (/\ Serving
     /\ checks # <<>>
     /\ checks[Len(checks)] = "failed"
     /\ Len(checks) < MaxChecks)
    => mpc = "wait" /\ ENABLED checkUrls(FALSE)

\* C18: a check whose fetch of the links fails probes no URL, leaves
\* knownStates as it is and logs no notification, and the monitor makes its
\* check again on the next tick.
C18_FetchFailureSkipsTick ==
    /\ [](LoopOnlyAfterFetch /\ NextCheckAfterFailure)
    /\ [][FetchFailureSkipsCheck]_vars

\* A Link was probed, the next check failed to fetch the links, and the
\* check after that probed the Link again.
C18_Witness ==
    /\ checks = <<"ok", "failed", "ok">>
    /\ nProbes[1] = 2
    /\ mpc = "wait"

\* The state a probe records for a Link.
ProbeClassified ==
    \A id \in LinkIDs :
        ProbeStep(id)
        => knownStates'[id] =
              (lastProbe'.kind = "response" /\ lastProbe'.status \in 200..399)

\* C19: a probe is classified accessible exactly when it received a
\* response whose status code is in 200..399; every other status code, a
\* request that could not be built, a transport error and a timeout are
\* classified inaccessible.
C19_ProbeClassification ==
    /\ [](\A o \in ProbeOutcomes :
            isUrlAccessible(o) <=> (o.kind = "response" /\ o.status \in 200..399))
    /\ [][ProbeClassified]_vars

\* A probe that met a 400 was followed by one that met a 399, and the
\* change was logged.
C19_Witness ==
    /\ lastProbe = [kind |-> "response", status |-> 399]
    /\ knownStates[1] = TRUE
    /\ nProbes[1] = 2
    /\ Len(notifications) = 1
    /\ notifications[1].from = "INACCESSIBLE"

\* A persist that failed: the event is gone, its worker is back at the
\* receive, and neither the channel, the clicks table, the last response
\* nor the process has changed.
PersistFailureDiscards ==
    \A s \in Seqs :
        (s \in failed' /\ s \notin failed)
        => /\ \E w \in Workers :
                 /\ wpc[w] = "persist" /\ wevent[w].seq = s
                 /\ wpc'[w] = "recv"
                 /\ \A v \in Workers \ {w} : wpc'[v] = wpc[v]
           /\ UNCHANGED <<queue, clicks, resp, mainpc, closed, dropped>>

\* A failed event is nowhere in the pipeline and was tried once.
FailedNeverRetried ==
    /\ failed \cap (QueuedSeqs \cup HeldSeqs \cup PersistedSeqs) = {}
    /\ \A s \in failed : dequeues[s] = 1 /\ attempts[s] = 1

\* After a failure every worker is still in its loop, and one that is at
\* the receive takes the next event of the channel.
WorkersSurviveFailure ==
    failed # {}
    => \A w \in Workers :
          /\ wpc[w] \in {"recv", "persist"}
          /\ (Serving /\ wpc[w] = "recv" /\ queue # <<>>)
             => ENABLED WorkerRecv(w)

\* A redirect of an existing Link served after a failure.
RedirectAfterFailure ==
    (failed # {} /\ nextSeq' = nextSeq + 1)
    => /\ resp'.status = 302
       /\ resp'.location = RowByCode(links, resp'.code).LongURL
       /\ IF Len(queue) < BufferSize
          THEN Len(queue') = Len(queue) + 1 /\ dropped' = dropped
          ELSE queue' = queue /\ dropped' = dropped \cup {nextSeq + 1}

\* C15: when a worker's CreateClick fails, the event is not put back in
\* the channel and is never persisted later, the worker stays in its loop
\* and takes the next event, redirects are answered as before and the
\* process goes on.
C15_PersistFailureIsLocal ==
    /\ [](FailedNeverRetried /\ WorkersSurviveFailure)
    /\ [][PersistFailureDiscards /\ RedirectAfterFailure]_vars

\* The persist of the first event failed; both later events were accepted
\* by the channel and persisted, and the last redirect answered 302.
C15_Witness ==
    /\ failed = {1}
    /\ PersistedSeqs = {2, 3}
    /\ resp.handler = "redirect" /\ resp.status = 302 /\ resp.seq = 3
    /\ \A w \in Workers : wpc[w] = "recv"
    /\ mainpc = "serving"

\* A call whose existence check met a store error other than not-found.
CheckFailureReturnsAtOnce ==
    \A p \in Clients :
        call[p].check = "failed"
        => /\ call[p].pc = "done"
           /\ call[p].link = NoLink
           /\ call[p].gens = call[p].hits + 1
           /\ call[p].shortCode = <<>>
           /\ call[p].store = "none"
           /\ call[p].inserts = 0
           /\ ErrorsIs(call[p].err, ErrDatabase)
           /\ call[p].err # ErrRetriesExhausted
           /\ ~ErrorsIs(call[p].err, ErrRetriesExhausted)
           /\ ~ErrorsIs(ErrRetriesExhausted, ErrDatabase)

\* A call whose insert the store rejected.
InsertFailureReturned ==
    \A p \in Clients :
        call[p].store = "rejected"
        => /\ call[p].pc = "done"
           /\ call[p].link = NoLink
           /\ call[p].err # NoErr
           /\ ~ErrorsIs(call[p].err, ErrRetriesExhausted)
           /\ call[p].gens = call[p].hits + 1
           /\ call[p].code = call[p].shortCode
           /\ call[p].inserts = 0

\* The step in which the store fails a call: the call is over, and the
\* links table is as it was.
StoreFailureEndsCall ==
    \A p \in Clients :
        (/\ call[p].pc \in {"loop", "insert"}
         /\ \/ call'[p].check = "failed"
            \/ call'[p].store = "rejected")
        => /\ call'[p].pc = "done"
           /\ links' = links
           /\ call'[p].gens <= call[p].gens + 1
           /\ call[p].pc = "insert" => call'[p].gens = call[p].gens

\* C16: when the existence check of CreateLink fails with a store error
\* other than not-found, the call returns in that step with an error that
\* wraps the store's error and is not the error of 5 collisions, having
\* generated no further code and made no insert; when the insert fails the
\* call returns the error without a new code or a second insert.
C16_StoreErrorsAbort ==
    /\ [](CheckFailureReturnsAtOnce /\ InsertFailureReturned)
    /\ [][StoreFailureEndsCall]_vars

\* One call was ended by a failed existence check, the other by a failed
\* insert.
C16_Witness ==
    \E p, q \in Clients :
        /\ call[p].pc = "done" /\ call[p].check = "failed"
        /\ call[p].gens = 1
        /\ call[q].pc = "done" /\ call[q].store = "rejected"
        /\ ErrorsIs(call[q].err, ErrDatabase)

\* The results of the request that report a success.
SuccessfulResults ==
    {i \in 1..Len(batch.results) : batch.results[i].success}

\* handleMultipleURLs while it runs: CreateLink has been called for a
\* prefix of the URLs, in their order, once each, and every call that has
\* returned has its result at the position of its URL.
BatchInOrder ==
    batch.route = "multiple"
    => /\ Len(batch.calls) <= Len(batch.urls)
       /\ \A i \in 1..Len(batch.calls) : batch.calls[i] = batch.urls[i]
       /\ nCalls = Len(batch.calls)
       /\ Len(batch.calls) =
             Len(batch.results) + (IF batch.pc = "loop" THEN 1 ELSE 0)
       /\ \A i \in 1..Len(batch.results) :
             /\ batch.results[i].long_url = batch.urls[i]
             /\ batch.results[i].success
                => \E j \in 1..Len(links) :
                      /\ links[j].ShortCode = batch.results[i].short_code
                      /\ links[j].LongURL = batch.urls[i]
       /\ batch.successful = Cardinality(SuccessfulResults)
       /\ batch.failed = Len(batch.results) - Cardinality(SuccessfulResults)

\* The response of handleMultipleURLs.
BatchResponse ==
    (batch.route = "multiple" /\ batch.pc = "done")
    => /\ batch.calls = batch.urls
       /\ Len(batch.results) = Len(batch.urls)
       /\ batch.total = Len(batch.urls)
       /\ batch.total = batch.successful + batch.failed
       /\ batch.status = IF batch.failed = 0 THEN 201
                         ELSE IF batch.successful = 0 THEN 400
                         ELSE 207

ExitOnlyWhenClosedAndDrained ==
    \A w \in Workers : wpc[w] = "exited" => (closed /\ queue = <<>>)

\* A worker at the receive of an open, empty channel can take no step.
BlocksOnOpenEmptyQueue ==
    \A w \in Workers :
        (wpc[w] = "recv" /\ ~closed /\ queue = <<>>) => ~ENABLED WorkerRecv(w)

\* The steps of a worker: from the receive it leaves the loop only on a
\* closed, empty channel and takes the head of the channel otherwise; an
\* event it has taken gets its CreateClick call before the next receive.
WorkerSteps ==
    \A w \in Workers :
        /\ (wpc[w] # "exited" /\ wpc'[w] = "exited")
           => wpc[w] = "recv" /\ closed /\ queue = <<>>
        /\ (wpc[w] = "recv" /\ wpc'[w] # "recv" /\ queue # <<>>)
           => /\ wpc'[w] = "persist"
              /\ wevent'[w] = Head(queue)
              /\ queue' = Tail(queue)
        /\ (wpc[w] = "persist" /\ wpc'[w] # "persist")
           => /\ wpc'[w] = "recv"
              /\ attempts'[wevent[w].seq] = attempts[wevent[w].seq] + 1

\* C20: a worker leaves its loop only in a state where the channel is
\* closed and empty; at the receive of an open, empty channel it blocks;
\* while the channel holds events, closed or not, its next step takes the
\* head of the channel, and every event it takes gets a persist attempt
\* before it is back at the receive.
C20_WorkerExitOnlyWhenDrained ==
    /\ [](ExitOnlyWhenClosedAndDrained /\ BlocksOnOpenEmptyQueue)
    /\ [][WorkerSteps]_vars

\* Every event built was persisted or failed, the channel is open and
\* empty, the shutdown signal has arrived and every worker is still at
\* the receive.
C20_Witness ==
    /\ nextSeq = MaxRedirects
    /\ dropped = {}
    /\ Len(clicks) + Cardinality(failed) = nextSeq
    /\ queue = <<>> /\ ~closed
    /\ mainpc = "grace"
    /\ \A w \in Workers : wpc[w] = "recv" /\ ~ENABLED WorkerRecv(w)

\* The events that have left the channel and have not had their
\* CreateClick call yet.
InFlight == {s \in Seqs : dequeues[s] > attempts[s]}

\* The in-flight events are the events the workers hold, one per worker
\* that is in its loop body.
OneInFlightPerWorker ==
    /\ InFlight = HeldSeqs
    /\ Cardinality(InFlight) =
          Cardinality({w \in Workers : wpc[w] = "persist"})
    /\ Cardinality(InFlight) <= WorkerCount

\* An event leaves the channel into a worker that holds none, and a
\* worker lets go of its event only by the CreateClick call for it.
DequeueOnlyWhenFree ==
    /\ \A s \in Seqs :
          dequeues'[s] = dequeues[s] + 1
          => \E w \in Workers :
                /\ wpc[w] = "recv" /\ wevent[w] = NoEvent
                /\ wpc'[w] = "persist" /\ wevent'[w].seq = s
    /\ \A w \in Workers :
          (wpc[w] = "persist" /\ wevent'[w] # wevent[w])
          => /\ attempts'[wevent[w].seq] = attempts[wevent[w].seq] + 1
             /\ wpc'[w] = "recv"
             /\ wevent'[w] = NoEvent

\* C21: a worker holds at most one event at a time and finishes the
\* persist attempt of the event it took before it takes another, so the
\* events that have been dequeued and not yet attempted are never more
\* than the workers.
C21_OneInFlightPerWorker ==
    []OneInFlightPerWorker /\ [][DequeueOnlyWhenFree]_vars

\* Every worker holds an event while another event waits in the channel.
C21_Witness ==
    /\ \A w \in Workers : wpc[w] = "persist"
    /\ Cardinality(InFlight) = WorkerCount
    /\ queue # <<>>

\* The channel never holds more events than its capacity, holds them in
\* the order it accepted them, and every event that has left it was
\* accepted before every event still in it.
QueueBoundedInOrder ==
    /\ Len(queue) \in 0..BufferSize
    /\ \A i, j \in 1..Len(queue) : i < j => queue[i].seq < queue[j].seq
    /\ \A s \in QueuedSeqs, t \in Seqs : dequeues[t] > 0 => t < s

\* An accepted event goes to the tail of the channel, and the event that
\* leaves the channel is its head.
FifoSteps ==
    /\ Len(queue') > Len(queue)
       => /\ Len(queue') = Len(queue) + 1
          /\ SubSeq(queue', 1, Len(queue)) = queue
          /\ queue'[Len(queue')].seq = nextSeq + 1
    /\ \A s \in Seqs :
          dequeues'[s] = dequeues[s] + 1
          => queue # <<>> /\ Head(queue).seq = s /\ queue' = Tail(queue)
    /\ Len(queue') < Len(queue) => queue' = Tail(queue)

\* C22: the channel holds between 0 and BufferSize events in every state,
\* and events leave it in the order in which it accepted them, whatever
\* the order in which the workers persist them.
C22_BoundedFifo == []QueueBoundedInOrder /\ [][FifoSteps]_vars

\* Two events left the channel in order and were persisted in the
\* opposite order, while the channel holds a later event.
C22_Witness ==
    /\ queue # <<>>
    /\ \E i, j \in 1..Len(clicks) :
          /\ i < j
          /\ clicks[i].seq > clicks[j].seq
          /\ clicks[i].seq < Head(queue).seq

\* A step leaves every row of the links table as it is and adds at most
\* one row after them.
LinksOnlyGrow ==
    /\ Len(links') \in {Len(links), Len(links) + 1}
    /\ \A i \in 1..Len(links) :
          /\ links'[i].ID = links[i].ID
          /\ links'[i].ShortCode = links[i].ShortCode
          /\ links'[i].LongURL = links[i].LongURL
          /\ links'[i].CreatedAt = links[i].CreatedAt

\* C23: no step of CreateLink, of a lookup, of the statistics or redirect
\* handler, of a worker or of the monitor changes or removes a row of the
\* links table: the short_code, long_url and created_at of a Link stay
\* what they were and the table only grows.
C23_LinksImmutable == [][LinksOnlyGrow]_vars

\* The table holds two Links created at different times; the first has
\* been redirected to, its click has been persisted, its statistics have
\* been answered and the monitor has probed it.
C23_Witness ==
    /\ Len(links) = 2
    /\ links[1].CreatedAt < links[2].CreatedAt
    /\ Len(clicks) = 1 /\ clicks[1].LinkID = 1
    /\ resp.handler = "stats" /\ resp.status = 200 /\ resp.total_clicks = 1
    /\ nProbes[1] = 1

\* The state the monitor knows for a Link: none before a probe of it.
Unknown(ks, id) == id \notin DOMAIN ks

\* A Link the monitor has never probed has no known state.
UnknownUntilProbed ==
    \A id \in LinkIDs : nProbes[id] = 0 => Unknown(knownStates, id)

\* A step changes the known state of a Link only by probing it, to the
\* result of that probe, and never back to none.
KnownStateSteps ==
    \A id \in LinkIDs :
        /\ ~Unknown(knownStates, id) => ~Unknown(knownStates', id)
        /\ ~ProbeStep(id)
           => /\ Unknown(knownStates', id) = Unknown(knownStates, id)
              /\ ~Unknown(knownStates, id)
                 => knownStates'[id] = knownStates[id]
        /\ ProbeStep(id)
           => /\ ~Unknown(knownStates', id)
              /\ knownStates'[id] = isUrlAccessible(lastProbe')
              /\ Head(mlinks).ID = id

\* C24: the monitor knows no state for a Link before it has probed it,
\* the known state changes only in a probe of that Link, is the result of
\* that probe after it, and never becomes unknown again.
C24_KnownStateMachine == []UnknownUntilProbed /\ [][KnownStateSteps]_vars

\* The first Link was probed accessible and then inaccessible, the second
\* Link once and accessible.
C24_Witness ==
    /\ nProbes[1] = 2 /\ nProbes[2] = 1
    /\ DOMAIN knownStates = {1, 2}
    /\ knownStates[1] = FALSE /\ knownStates[2] = TRUE
    /\ Len(notifications) = 1
    /\ notifications[1].to = "INACCESSIBLE"

\* The mutex is held exactly between Lock and Unlock, that is over the
\* read and the write of one entry; it is free while a probe is out and
\* while the monitor waits for its ticker.
LockOnlyAroundEntry ==
    /\ mu = "held" <=> (mpc = "loop" /\ mbody.at \in {"read", "write", "unlock"})
    /\ (mpc = "loop" /\ mbody.at = "probing") => mu = "free"
    /\ mpc = "wait" => mu = "free"

\* The fetch of the links and both ends of a probe happen with the mutex
\* free; while it is held, the only change to knownStates is the entry of
\* the link of this pass, written with the result of its probe, after its
\* previous value was read.
LockSteps ==
    /\ Len(checks') # Len(checks) => mu = "free" /\ mu' = "free"
    /\ lastProbe' # lastProbe => mu = "free" /\ mu' = "free"
    /\ knownStates' # knownStates
       => /\ mu = "held" /\ mu' = "held"
          /\ mbody.at = "write"
          /\ \A id \in DOMAIN knownStates :
                id # Head(mlinks).ID => knownStates'[id] = knownStates[id]
          /\ knownStates'[Head(mlinks).ID] = mbody.currentState
          /\ mbody.exists = (Head(mlinks).ID \in DOMAIN knownStates)
          /\ mbody.exists
             => mbody.previousState = knownStates[Head(mlinks).ID]
    /\ (mu = "held" /\ mu' = "held") => mlinks' = mlinks

\* C25: the monitor holds its mutex only from the read of a Link's
\* previous state to the write of its new state, one entry per hold, and
\* never while a probe or the fetch of the links is in progress.
C25_LockScope == []LockOnlyAroundEntry /\ [][LockSteps]_vars

\* In the second check the probe of the second Link is out, with the
\* mutex free, after the entry of the first Link was written under it.
C25_Witness ==
    /\ mpc = "loop" /\ mbody.at = "probing"
    /\ Head(mlinks).ID = 2
    /\ mu = "free"
    /\ DOMAIN knownStates = {1, 2}
    /\ nProbes[1] = 2 /\ nProbes[2] = 1

\* The four fields a Click shares with the ClickEvent it was built from.
EventFields(r) ==
    [LinkID |-> r.LinkID, Timestamp |-> r.Timestamp,
     UserAgent |-> r.UserAgent, IPAddress |-> r.IPAddress]

\* Every Click comes from one event the channel accepted, which was
\* dequeued once and persisted once; no two Clicks come from the same event.
\* (No CreateLink call runs beside the pipeline here, so the time of the
\* n-th event is n.)
ClicksFromAcceptedEvents ==
    /\ \A i \in 1..Len(clicks) :
          /\ clicks[i].ID = i
          /\ clicks[i].seq \in (1..nextSeq) \ (dropped \cup failed)
          /\ dequeues[clicks[i].seq] = 1 /\ attempts[clicks[i].seq] = 1
          /\ clicks[i].LinkID \in {links[k].ID : k \in 1..Len(links)}
          /\ clicks[i].Timestamp = nCalls + clicks[i].seq
          /\ clicks[i].IPAddress = ClientIP
    /\ \A i, j \in 1..Len(clicks) : clicks[i].seq = clicks[j].seq => i = j

\* The channel gains an event only from the redirect handler, which built
\* it from the Link it found, the clock and the request.
EventBuilt ==
    queue' # queue =>
        \/ queue # <<>> /\ queue' = Tail(queue)
        \/ /\ Len(queue') = Len(queue) + 1
           /\ SubSeq(queue', 1, Len(queue)) = queue
           /\ resp'.handler = "redirect" /\ resp'.status = 302
           /\ LET e == queue'[Len(queue')]
              IN  /\ e.seq = nextSeq + 1 /\ nextSeq' = nextSeq + 1
                  /\ e.LinkID = RowByCode(links, resp'.code).ID
                  /\ e.Timestamp = Now
                  /\ e.UserAgent \in UserAgents
                  /\ e.IPAddress = ClientIP

\* A worker's event is the one it took from the head of the channel, as it
\* was there.
EventHandedOver ==
    \A w \in Workers :
        wevent'[w] # wevent[w] =>
            \/ wpc[w] = "persist" /\ wevent'[w] = NoEvent
            \/ /\ wpc[w] = "recv" /\ wpc'[w] = "persist"
               /\ queue # <<>> /\ wevent'[w] = Head(queue)
               /\ queue' = Tail(queue)

\* The clicks table changes only by one row appended by a worker, and the
\* row carries the four fields of the event that worker held.
ClickCarriesEvent ==
    clicks' # clicks =>
        \E w \in Workers :
            /\ wpc[w] = "persist" /\ wpc'[w] = "recv"
            /\ Len(clicks') = Len(clicks) + 1
            /\ SubSeq(clicks', 1, Len(clicks)) = clicks
            /\ EventFields(clicks'[Len(clicks')]) = EventFields(wevent[w])
            /\ clicks'[Len(clicks')].seq = wevent[w].seq
            /\ wevent[w].seq \in (1..nextSeq) \ dropped

\* C26: every Click is written by a worker from exactly one accepted
\* ClickEvent and carries its link_id, timestamp, user_agent and
\* ip_address as the redirect handler set them; the channel and the worker
\* hand the event over unchanged, and no Click exists without such an event.
C26_ClickFromOneEvent ==
    /\ []ClicksFromAcceptedEvents
    /\ [][EventBuilt /\ EventHandedOver /\ ClickCarriesEvent]_vars

\* Two Clicks of two events with different user agents, persisted against
\* the order of the events.
C26_Witness ==
    /\ Len(clicks) = 2
    /\ clicks[1].seq = 2 /\ clicks[1].UserAgent = "curl/8"
    /\ clicks[2].seq = 1 /\ clicks[2].UserAgent = ""
    /\ clicks[1].Timestamp = 2 /\ clicks[2].Timestamp = 1

\* An event is discarded only by a send attempt that finds BufferSize
\* events in the channel; the event is the one just built.
DiscardOnlyWhenFull ==
    dropped' # dropped =>
        /\ Len(queue) = BufferSize
        /\ queue' = queue
        /\ dropped' = dropped \cup {nextSeq + 1}
        /\ nextSeq' = nextSeq + 1

\* A send attempt that finds a free slot puts the event at the back of the
\* channel and discards nothing.
AcceptedWhenFree ==
    (nextSeq' # nextSeq /\ ~closed /\ Len(queue) < BufferSize) =>
        /\ Len(queue') = Len(queue) + 1
        /\ SubSeq(queue', 1, Len(queue)) = queue
        /\ queue'[Len(queue')].seq = nextSeq + 1
        /\ dropped' = dropped

\* Every event built so far was either accepted or discarded, never both.
AcceptedOrDiscarded ==
    /\ dropped \subseteq 1..nextSeq
    /\ \A s \in 1..nextSeq :
          s \in dropped <=> (s \notin QueuedSeqs /\ dequeues[s] = 0)

\* C27: the redirect handler discards an event only when its send attempt
\* finds exactly BufferSize events in the channel; an attempt that finds a
\* free slot always enqueues the event.
C27_DiscardOnlyWhenFull ==
    /\ []AcceptedOrDiscarded
    /\ [][DiscardOnlyWhenFull /\ AcceptedWhenFree]_vars

\* The first BufferSize events found a free slot and wait in the channel;
\* the next one found it full and was discarded.
C27_Witness ==
    /\ QueuedSeqs = 1..BufferSize
    /\ dropped = {BufferSize + 1}
    /\ resp.handler = "redirect" /\ resp.status = 302
    /\ resp.seq = BufferSize + 1
    /\ \A w \in Workers : wpc[w] = "recv"

\* The ClickEvents built so far are the redirects served for existing Links:
\* each is in exactly one of five places.
EventsAccountedFor ==
    /\ nextSeq = Cardinality(dropped) + Len(queue)
                  + Cardinality({w \in Workers : wpc[w] = "persist"})
                  + Len(clicks) + Cardinality(failed)
    /\ dropped \cup QueuedSeqs \cup HeldSeqs \cup PersistedSeqs \cup failed
          = 1..nextSeq
    /\ Cardinality(QueuedSeqs) = Len(queue)
    /\ Cardinality(PersistedSeqs) = Len(clicks)
    /\ Cardinality(HeldSeqs) = Cardinality({w \in Workers : wpc[w] = "persist"})

\* An event is built exactly by a redirect that found its Link and
\* answers 302.
EventPerServedRedirect ==
    /\ nextSeq' # nextSeq =>
          /\ nextSeq' = nextSeq + 1
          /\ resp'.handler = "redirect" /\ resp'.status = 302
          /\ HasCode(links, resp'.code)
          /\ resp'.seq = nextSeq'
    /\ (resp' # resp /\ resp'.handler = "redirect" /\ resp'.status = 302)
          => nextSeq' = nextSeq + 1

\* A redirect that answers 404 or 500 builds no event and leaves the whole
\* pipeline as it was.
MissBuildsNoEvent ==
    (resp' # resp /\ resp'.handler = "redirect" /\ resp'.status # 302)
        => UNCHANGED pipeVars

\* C28: the redirects served for existing Links are as many as the events
\* dropped, queued, in flight, persisted and failed together, each event
\* being in one of these places; a redirect for an unknown code builds no
\* ClickEvent.
C28_EventsConserved ==
    /\ []EventsAccountedFor
    /\ [][EventPerServedRedirect /\ MissBuildsNoEvent]_vars

\* One event in each of four places, after a redirect of an unknown code.
C28_Witness ==
    /\ nextSeq = 3
    /\ Cardinality(failed) = 1 /\ Len(clicks) = 1
    /\ Cardinality(HeldSeqs) + Len(queue) = 1
    /\ resp.handler = "redirect" /\ resp.code = NoSuchCode
    /\ ~resp.dberr /\ resp.status # 302

\* While requests are served one channel exists, and the package variable
\* the handler sends on and every worker hold it.
OneSharedChannel ==
    boot.pc = "serving" =>
        /\ boot.made = 1
        /\ boot.ClickEventsChannel # NilChan
        /\ boot.ClickEventsChannel = boot.clickEventsChan
        /\ \A w \in Workers : boot.workerChan[w] = boot.ClickEventsChannel

\* No event is sent before the server serves, and a worker never holds a
\* channel other than the one Run made.
NoSendBeforeServing ==
    /\ boot.pc # "serving" => (nextSeq = 0 /\ queue = <<>>)
    /\ \A w \in Workers : boot.workerChan[w] \in {NilChan, boot.clickEventsChan}

\* SetupRoutes leaves a package variable that holds a channel as it is and
\* makes no channel then; once it holds a channel the variable stays.
SetupRoutesKeepsChannel ==
    /\ boot.ClickEventsChannel # NilChan
          => boot'.ClickEventsChannel = boot.ClickEventsChannel
    /\ (boot.pc = "routes" /\ boot.ClickEventsChannel # NilChan)
          => boot'.made = boot.made

\* C29: the channel the redirect handler sends on is the channel the
\* workers receive from: SetupRoutes makes a channel only when the package
\* variable holds none, and Run has set the variable to the workers'
\* channel before it calls SetupRoutes.
C29_OneChannel ==
    /\ [](OneSharedChannel /\ NoSendBeforeServing)
    /\ [][SetupRoutesKeepsChannel]_vars

\* After start-up an event the handler sent was received by a worker and
\* persisted, with one channel ever made.
C29_Witness ==
    /\ boot.pc = "serving" /\ boot.made = 1
    /\ boot.ClickEventsChannel = 1
    /\ clicks # <<>>
    /\ \E w \in Workers : wpc[w] = "persist"

\* A call inserts at most one row, and only the call that returns a Link
\* has inserted one; a call that has returned an error has inserted none,
\* whatever made it fail.
InsertsPerCall ==
    \A p \in Clients :
        /\ call[p].inserts <= 1
        /\ call[p].pc # "done" => call[p].inserts = 0
        /\ (call[p].pc = "done" /\ call[p].err # NoErr) =>
              /\ call[p].inserts = 0
              /\ call[p].link = NoLink
              /\ call[p].store \in {"none", "rejected"}
        /\ (call[p].pc = "done" /\ call[p].err = NoErr) =>
              /\ call[p].inserts = 1
              /\ call[p].store = "accepted"
              /\ \E k \in 1..Len(links) : links[k] = call[p].link

\* The links table changes only in the step in which one call's insert is
\* accepted, by the one row that call returns.
OnlyAcceptedInsertWrites ==
    links' # links =>
        \E p \in Clients :
            /\ call[p].pc = "insert" /\ call'[p].pc = "done"
            /\ call'[p].err = NoErr /\ call'[p].inserts = 1
            /\ links' = Append(links, call'[p].link)
            /\ \A q \in Clients \ {p} : call'[q] = call[q]

\* The step in which a call returns an error leaves the links table as it
\* is.
FailureWritesNothing ==
    \A p \in Clients :
        (call[p].pc \in {"loop", "insert"} /\ call'[p].pc = "done"
         /\ call'[p].err # NoErr)
            => links' = links

\* C30: a CreateLink call performs at most one insert, and a call that
\* returns an error (retries exhausted, failed existence check, failed code
\* generation or rejected insert) has added, changed and removed no Link.
C30_FailedCallWritesNothing ==
    /\ []InsertsPerCall
    /\ [][OnlyAcceptedInsertWrites /\ FailureWritesNothing]_vars

\* Two calls found the same code free; the insert of one was accepted and
\* the insert of the other rejected, and the table holds the one Link.
C30_Witness ==
    /\ Len(links) = 1
    /\ \E p, q \in Clients :
          /\ call[p].pc = "done" /\ call[p].err = NoErr
          /\ call[p].inserts = 1 /\ links[1] = call[p].link
          /\ call[q].pc = "done" /\ call[q].err # NoErr
          /\ call[q].store = "rejected" /\ call[q].inserts = 0
          /\ call[q].shortCode = call[p].shortCode

====
